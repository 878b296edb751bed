---------------------------- MODULE MCStateMigration ----------------------------
(***************************************************************************)
(* Instances of StateMigration for TLC: repositories of either layout or   *)
(* of both, and state roots that are new or in use.                        *)
(***************************************************************************)
EXTENDS StateMigration

CONSTANT Own    \* the entry a state root in use already has

Nothing(paths) == [path \in paths |-> Absent]

Having(paths) ==
  {[path \in LegacyPaths |-> IF path \in present THEN Entries \ {Own} ELSE Absent] :
     present \in SUBSET paths}

(* Either layout, and both at once.                                        *)
Repositories == Having(LegacyPaths)

(* A state root that does not exist, one whose services have been started, *)
(* and one with a task and an object of its own.                           *)
StateRoots ==
  {Nothing(RootPaths),
   [path \in RootPaths |-> IF path \in Layout THEN {} ELSE Absent],
   [path \in RootPaths |->
      IF path \in {"tasks/active/T", "kb/canonical/claims", "indexes/manifest"}
        THEN {Own}
        ELSE IF path \in Layout THEN {} ELSE Absent]}

NewRoots == {Nothing(RootPaths)}
=============================================================================
