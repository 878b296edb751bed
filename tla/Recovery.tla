-------------------------------- MODULE Recovery --------------------------------
(***************************************************************************)
(* The operator's backup-state and restore-state, over the Thin KB of      *)
(* module ThinKB and the tree of the tasks                                 *)
(* (packages/core/storage/recovery.py).                                    *)
(*                                                                         *)
(* A backup is a process of its own that walks the tree while the services *)
(* write: one action is the listing of a directory or the copy of a file.  *)
(* A restore replaces tree after tree, rebuilds the manifest and compares  *)
(* it with the files; services are down meanwhile.  Either may be killed   *)
(* at any point.  The tree of the tasks is a version number, raised by     *)
(* every write of the artifact service.                                    *)
(***************************************************************************)
EXTENDS ThinKB, Sequences

CONSTANT MaxTasks      \* bound: no write of the tasks beyond this version

VARIABLES tasks,       \* version of the tree of the tasks, or NoTree
          archive,     \* the backup: what it holds of each section
          phase,       \* the step the operator's command makes next
          todo,        \* the tiers that are still to be walked or copied
          absent,      \* what a killed restore has left without a path
          result,      \* of the restore that has just ended
          owed         \* history: the object was there, and not only by a
                       \* creation under way, when the walk began, and has
                       \* not been created anew since

operator == <<archive, phase, todo, absent, result, owed>>
everything == <<vars, tasks, operator>>

NoTree == 0

ASSUME MaxTasksAssumption == MaxTasks \in Nat

(* `sections' is what has been reached; a tier counts once its directory   *)
(* is in the archive.                                                      *)
NoArchive == [sections |-> {}, tasks |-> NoTree, row |-> NoRow, told |-> None,
              file |-> [tier \in Tiers |-> NoDoc]]

Sections == Tiers \cup {"tasks", "indexes", "ledgers"}
Complete == archive.sections = Sections

(* Faulty variant: the tiers in the order the store names them.            *)
WalkOrderOfTiers == <<"canonical", "candidate", "deprecated">>

(* The walk visits the entries of kb/ in the order of their names:         *)
(* candidates, canonical, deprecated.                                      *)
WalkOrder == <<"candidate", "canonical", "deprecated">>

Walking == {"list", "add"}
Restoring == {"rm_tasks", "cp_tasks", "rm_kb", "cp_kb", "rm_indexes",
              "cp_indexes", "ledgers", "clear", "fill", "check"}

RecoveryInit ==
  /\ Init
  /\ tasks = 1
  /\ archive = NoArchive
  /\ phase = "idle"
  /\ todo = <<>>
  /\ absent = {}
  /\ result = None
  /\ owed = FALSE

Now(next) == phase' = next /\ UNCHANGED <<archive, todo, result, owed>>

-----------------------------------------------------------------------------
(* The services.                                                           *)

Recreates ==
  /\ file'["candidate"] # file["candidate"]
  /\ \E t \in Threads : pc[t] = "write" /\ mine[t].call.op = "create"

ServeKB ==
  /\ phase \notin Restoring
  /\ Next
  /\ owed' = (owed /\ ~(phase \in Walking /\ Recreates))
  /\ absent' = {}
  /\ result' = None
  /\ UNCHANGED <<tasks, archive, phase, todo>>

ServeTasks ==
  /\ phase \notin Restoring /\ tasks < MaxTasks
  /\ tasks' = tasks + 1
  /\ result' = None
  /\ UNCHANGED <<vars, archive, phase, todo, absent, owed>>

-----------------------------------------------------------------------------
(* backup_workspace.  It requires the paths of the tasks, kb/canonical and *)
(* the manifest, whether or not the server is up.                          *)

Backup ==
  /\ phase = "idle" /\ tasks # NoTree /\ absent = {}
  /\ archive' = [NoArchive EXCEPT !.sections = {"tasks"}, !.tasks = tasks]
  /\ phase' = "list" /\ todo' = WalkOrder
  /\ owed' = (Winner(Standing) # None)
  /\ result' = None
  /\ UNCHANGED <<vars, tasks, absent>>

Tier == Head(todo)

NextDirectory ==
  /\ todo' = Tail(todo)
  /\ phase' = IF Tail(todo) = <<>> THEN "pack_indexes" ELSE "list"

List ==
  /\ phase = "list"
  /\ archive' = [archive EXCEPT !.sections = @ \cup {Tier}]
  /\ IF file[Tier] = NoDoc
       THEN NextDirectory
       ELSE phase' = "add" /\ UNCHANGED todo
  /\ UNCHANGED <<vars, tasks, absent, result, owed>>

(* A file that has been removed since it was listed ends the backup with   *)
(* an error, and what has been archived so far stays.                      *)
Add ==
  /\ phase = "add"
  /\ IF file[Tier] = NoDoc
       THEN phase' = "idle" /\ todo' = <<>> /\ UNCHANGED archive
       ELSE /\ archive' = [archive EXCEPT !.file[Tier] = file[Tier]]
            /\ NextDirectory
  /\ UNCHANGED <<vars, tasks, absent, result, owed>>

PackIndexes ==
  /\ phase = "pack_indexes"
  /\ archive' = [archive EXCEPT !.sections = @ \cup {"indexes"}, !.row = row]
  /\ phase' = "pack_ledgers"
  /\ UNCHANGED <<vars, tasks, todo, absent, result, owed>>

PackLedgers ==
  /\ phase = "pack_ledgers"
  /\ archive' = [archive EXCEPT !.sections = @ \cup {"ledgers"}, !.told = told]
  /\ phase' = "idle"
  /\ UNCHANGED <<vars, tasks, todo, absent, result, owed>>

-----------------------------------------------------------------------------
(* restore_workspace.                                                      *)

(* An archive without tasks/ or kb/canonical/ is refused.                  *)
Restore ==
  /\ phase = "idle" /\ ~serving /\ \A t \in Threads : pc[t] = "idle"
  /\ {"tasks", "canonical"} \subseteq archive.sections
  /\ phase' = "rm_tasks"
  /\ result' = None
  /\ UNCHANGED <<vars, tasks, archive, todo, absent, owed>>

ReplaceTasks ==
  /\ \/ phase = "rm_tasks" /\ tasks' = NoTree /\ Now("cp_tasks")
     \/ phase = "cp_tasks" /\ tasks' = archive.tasks /\ Now("rm_kb")
  /\ UNCHANGED <<vars, absent>>

(* Faulty variant: the restored tree is copied over the one that is there. *)
RemoveKBNot ==
  /\ phase = "rm_kb"
  /\ phase' = "cp_kb" /\ todo' = WalkOrder
  /\ UNCHANGED <<vars, tasks, archive, absent, result, owed>>

(* File after file, in any order, and the directories with the last.       *)
RemoveKB ==
  /\ phase = "rm_kb"
  /\ \/ /\ \E tier \in OnDisk : file' = [file EXCEPT ![tier] = NoDoc]
        /\ UNCHANGED <<phase, todo, absent>>
     \/ /\ OnDisk = {}
        /\ phase' = "cp_kb" /\ todo' = WalkOrder
        /\ absent' = absent \cup {"canonical"}
        /\ UNCHANGED file
  /\ UNCHANGED <<row, told, serving, cut, pc, mine, tasks, archive, result, owed>>

CopyKB ==
  /\ phase = "cp_kb"
  /\ IF archive.file[Tier] = NoDoc THEN UNCHANGED file
                                   ELSE PutFile(Tier, archive.file[Tier])
  /\ todo' = Tail(todo)
  /\ phase' = IF Tail(todo) # <<>> THEN "cp_kb"
              ELSE IF "indexes" \in archive.sections THEN "rm_indexes"
              ELSE IF "ledgers" \in archive.sections THEN "ledgers"
              ELSE "clear"
  /\ absent' = absent \ {Tier}
  /\ UNCHANGED <<row, told, serving, cut, pc, mine, tasks, archive, result, owed>>

ReplaceIndexes ==
  /\ \/ phase = "rm_indexes" /\ row' = NoRow /\ Now("cp_indexes")
        /\ absent' = absent \cup {"manifest"}
     \/ phase = "cp_indexes" /\ row' = archive.row
        /\ Now(IF "ledgers" \in archive.sections THEN "ledgers" ELSE "clear")
        /\ absent' = absent \ {"manifest"}
  /\ UNCHANGED <<file, told, serving, cut, pc, mine, tasks>>

(* Nothing reads the ledgers: their removal and the copy are one step.     *)
ReplaceLedgers ==
  /\ phase = "ledgers"
  /\ told' = archive.told
  /\ Now("clear")
  /\ UNCHANGED <<file, row, serving, cut, pc, mine, tasks, absent>>

(* The store makes what it needs; rebuild_index, undisturbed: emptied,     *)
(* then filled from the files, which are completed to the current schema.  *)
Reindex ==
  /\ \/ phase = "clear" /\ row' = NoRow /\ Now("fill") /\ UNCHANGED file
     \/ /\ phase = "fill"
        /\ file' = [tier \in Tiers |-> [file[tier] EXCEPT !.legacy = FALSE]]
        /\ IF OnDisk = {} THEN UNCHANGED row
                          ELSE PutRow(Winner(file), file[Winner(file)].revision)
        /\ Now("check")
  /\ absent' = {}
  /\ UNCHANGED <<told, serving, cut, pc, mine, tasks>>

(* detect_manifest_mismatch: the ids of the canonical files and the ids of *)
(* all rows.                                                               *)
Mismatch == (file["canonical"] # NoDoc) # (row # NoRow)

Check ==
  /\ phase = "check"
  /\ phase' = "idle"
  /\ result' = IF Mismatch THEN "mismatch" ELSE "ok"
  /\ UNCHANGED <<vars, tasks, archive, todo, absent, owed>>

-----------------------------------------------------------------------------

Killed ==
  /\ phase # "idle"
  /\ phase' = "idle" /\ todo' = <<>>
  /\ UNCHANGED <<vars, tasks, archive, absent, result, owed>>

RecoveryNext ==
  \/ ServeKB \/ ServeTasks
  \/ Backup \/ List \/ Add \/ PackIndexes \/ PackLedgers
  \/ Restore \/ ReplaceTasks \/ RemoveKB \/ CopyKB \/ ReplaceIndexes
  \/ ReplaceLedgers \/ Reindex \/ Check
  \/ Killed

RecoverySpec == RecoveryInit /\ [][RecoveryNext]_everything

-----------------------------------------------------------------------------

(* A backup of a KB that is being written never misses an object that is   *)
(* only promoted and deprecated meanwhile, whatever fails in between: the  *)
(* walk goes the way objects go, and a new file is written before the      *)
(* former one is removed.                                                  *)
BackupKeepsObject ==
  Complete /\ owed => \E tier \in Tiers : archive.file[tier] # NoDoc

Upgraded(doc) == [doc EXCEPT !.legacy = FALSE]

(* A restore that comes to its end, after however many that were killed    *)
(* half way, leaves the archived workspace and nothing of the one that was *)
(* there, with a manifest made from it.  (That a server started on what a  *)
(* killed restore left indexes what is there is RecoveryRestores.)         *)
RestoredAsArchived ==
  [][phase = "check" /\ result' # None =>
       /\ tasks = archive.tasks
       /\ \A tier \in Tiers : file[tier] = Upgraded(archive.file[tier])
       /\ row.tier = Winner(file)
       /\ "ledgers" \in archive.sections => told = archive.told]_everything

(* "fails if manifest consistency is still broken after rebuild": it does  *)
(* not fail over a manifest that agrees with the files.                    *)
FailsIfBroken ==
  [][result' = "mismatch" /\ result # "mismatch"
     => row'.tier # Winner(file')]_everything
=============================================================================
