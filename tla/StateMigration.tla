----------------------------- MODULE StateMigration -----------------------------
(***************************************************************************)
(* scripts/migrate_runtime_state.py: the runtime directories that older    *)
(* versions kept in the repository are moved into the state root.          *)
(*                                                                         *)
(* The script moves one path after the other and stops at the first it     *)
(* refuses to move.  shutil.move is a rename within a file system and a    *)
(* copy followed by a removal, entry by entry, between two.  The script    *)
(* may be killed at any point and be run again.                            *)
(***************************************************************************)
EXTENDS Naturals, Sequences, SequencesExt

CONSTANTS Entries,     \* what a directory may hold
          Legacies,    \* what the repository may hold before the first run
          Roots        \* what the state root may hold before the first run

VARIABLES legacy,      \* path in the repository -> its entries, or Absent
          root,        \* path in the state root -> its entries, or Absent
          pc,          \* "idle", "next", "copy", "remove", "refused", "done"
          todo,        \* the moves that are still to be made
          found        \* history: legacy and root before the first run

vars == <<legacy, root, pc, todo, found>>

Absent == {"absent"}
ASSUME EntriesAssumption == "absent" \notin Entries

Holds(place) == place # Absent /\ place # {}
Remaining(place) == IF place = Absent THEN {} ELSE place

-----------------------------------------------------------------------------
(* Paths.  Two layouts of the tasks and of the KB have been in use: flat,  *)
(* and by status or tier.  One task and one type of object stand for all.  *)

Move(from, to, kind) == [from |-> from, to |-> to, kind |-> kind]

TaskTrees == <<Move("tasks/active", "tasks/active", "tree"),
               Move("tasks/archived", "tasks/archived", "tree")>>
FlatTasks == <<Move("tasks/T", "tasks/active/T", "entry")>>

KBTrees == <<Move("kb/canonical", "kb/canonical", "tree"),
             Move("kb/candidates", "kb/candidates", "tree"),
             Move("kb/deprecated", "kb/deprecated", "tree")>>
(* Faulty variant: the directories of objects only.                        *)
FlatKBObjects == <<Move("kb/claims", "kb/canonical/claims", "entry")>>

FlatKB == <<Move("kb/claims", "kb/canonical/claims", "entry"),
            Move("kb/sources", "kb/sources", "entry")>>

Rest == <<Move("kb/manifest", "indexes/manifest", "entry"),
          Move("observability", "observability", "tree"),
          Move("shadow_runs", "shadow_runs", "tree")>>

AllMoves == TaskTrees \o FlatTasks \o KBTrees \o FlatKB \o Rest

LegacyPaths == {"tasks/active", "tasks/archived", "tasks/T", "kb/canonical",
                "kb/candidates", "kb/deprecated", "kb/claims", "kb/sources",
                "kb/manifest", "observability", "shadow_runs"}
RootPaths == {move.to : move \in ToSet(AllMoves)}

Places == (SUBSET Entries) \cup {Absent}
ASSUME LegaciesAssumption == Legacies \subseteq [LegacyPaths -> Places]
ASSUME RootsAssumption == Roots \subseteq [RootPaths -> Places]

(* What ensure_state_layout and the two _migrate functions make before     *)
(* anything is moved.                                                      *)
Layout == {"tasks/active", "tasks/archived", "kb/canonical", "kb/candidates",
           "kb/deprecated", "observability", "shadow_runs"}

(* What a directory of the state root holds, what is inside it included.   *)
Contents(path) ==
  Remaining(root[path])
  \cup CASE path = "tasks/active" -> Remaining(root["tasks/active/T"])
         [] path = "kb/canonical" -> Remaining(root["kb/canonical/claims"])
         [] OTHER -> {}

Present(moves) == \E i \in DOMAIN moves : legacy[moves[i].from] # Absent

(* The layout is told by the directories that are there.                   *)
Plan ==
  (IF Present(TaskTrees) THEN TaskTrees ELSE FlatTasks)
  \o (IF Present(KBTrees) THEN KBTrees ELSE FlatKB)
  \o Rest

-----------------------------------------------------------------------------

Init ==
  /\ legacy \in Legacies /\ root \in Roots
  /\ found = [legacy |-> legacy, root |-> root]
  /\ pc = "idle" /\ todo = <<>>

Start ==
  /\ pc \in {"idle", "refused", "done"}
  /\ root' = [path \in RootPaths |->
                IF path \in Layout THEN Remaining(root[path]) ELSE root[path]]
  /\ todo' = Plan
  /\ pc' = "next"
  /\ UNCHANGED <<legacy, found>>

This == Head(todo)

(* Faulty variant: only the check of _move_tree.                           *)
RefusesTrees(move) == move.kind = "tree" /\ Contents(move.to) # {}

(* _move_tree refuses a destination that holds something, and _move_entry, *)
(* which it calls, one that exists.                                        *)
Refuses(move) ==
  \/ move.kind = "tree" /\ Contents(move.to) # {}
  \/ root[move.to] # Absent

Skip ==
  /\ pc = "next" /\ todo # <<>> /\ legacy[This.from] = Absent
  /\ todo' = Tail(todo)
  /\ UNCHANGED <<legacy, root, pc, found>>

Refuse ==
  /\ pc = "next" /\ todo # <<>> /\ legacy[This.from] # Absent
  /\ Refuses(This)
  /\ pc' = "refused"
  /\ UNCHANGED <<legacy, root, todo, found>>

(* Within a file system.                                                   *)
Rename ==
  /\ pc = "next" /\ todo # <<>> /\ legacy[This.from] # Absent
  /\ ~Refuses(This)
  /\ root' = [root EXCEPT ![This.to] = legacy[This.from]]
  /\ legacy' = [legacy EXCEPT ![This.from] = Absent]
  /\ todo' = Tail(todo)
  /\ UNCHANGED <<pc, found>>

(* Between two: the directory, its entries, and the removal of the source  *)
(* once all of them are copied.                                            *)
Copy ==
  /\ pc = "next" /\ todo # <<>> /\ legacy[This.from] # Absent
  /\ ~Refuses(This)
  /\ root' = [root EXCEPT ![This.to] = {}]
  /\ pc' = "copy"
  /\ UNCHANGED <<legacy, todo, found>>

CopyEntry ==
  /\ pc = "copy"
  /\ \E entry \in legacy[This.from] \ root[This.to] :
        root' = [root EXCEPT ![This.to] = @ \cup {entry}]
  /\ UNCHANGED <<legacy, pc, todo, found>>

(* Faulty variant: an interrupted copy is taken for a whole one.           *)
CopiedUnchecked ==
  /\ pc = "copy"
  /\ pc' = "remove"
  /\ UNCHANGED <<legacy, root, todo, found>>

Copied ==
  /\ pc = "copy" /\ legacy[This.from] \subseteq root[This.to]
  /\ pc' = "remove"
  /\ UNCHANGED <<legacy, root, todo, found>>

RemoveEntry ==
  /\ pc = "remove"
  /\ IF Holds(legacy[This.from])
       THEN /\ \E entry \in legacy[This.from] :
                  legacy' = [legacy EXCEPT ![This.from] = @ \ {entry}]
            /\ UNCHANGED <<pc, todo>>
       ELSE /\ legacy' = [legacy EXCEPT ![This.from] = Absent]
            /\ pc' = "next" /\ todo' = Tail(todo)
  /\ UNCHANGED <<root, found>>

Finish ==
  /\ pc = "next" /\ todo = <<>>
  /\ pc' = "done"
  /\ UNCHANGED <<legacy, root, todo, found>>

Killed ==
  /\ pc \in {"next", "copy", "remove"}
  /\ pc' = "idle" /\ todo' = <<>>
  /\ UNCHANGED <<legacy, root, found>>

Next == \/ Start \/ Skip \/ Refuse \/ Rename \/ Copy \/ CopyEntry \/ Copied
        \/ RemoveEntry \/ Finish \/ Killed

Spec == Init /\ [][Next]_vars

-----------------------------------------------------------------------------

(* However often the script is killed, refused and run again, each entry   *)
(* the repository held is still there or where the script puts it.         *)
NothingLost ==
  \A move \in ToSet(AllMoves) :
    Remaining(found.legacy[move.from])
      \subseteq Remaining(legacy[move.from]) \cup Remaining(root[move.to])

(* What the state root held before is neither removed nor mixed with what  *)
(* is moved.                                                               *)
NothingMixed ==
  \A path \in RootPaths : Holds(found.root[path]) => root[path] = found.root[path]

(* A run that comes to its end has left nothing behind.                    *)
DoneIsAll == pc = "done" => \A path \in LegacyPaths : legacy[path] = Absent

(* "The migration script refuses to overwrite non-empty destinations."     *)
RefusesNonEmpty == pc = "refused" => Contents(This.to) # {}
=============================================================================
