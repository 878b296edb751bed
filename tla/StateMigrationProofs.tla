-------------------------- MODULE StateMigrationProofs --------------------------
(***************************************************************************)
(* Theorems about StateMigration for any entries, any repository and any   *)
(* state root, however the paths of both layouts are mixed in them, and    *)
(* for any number of runs, refusals and kills.                             *)
(***************************************************************************)
EXTENDS StateMigration, TLAPS

-----------------------------------------------------------------------------
(* Paths.                                                                  *)

LEMMA ToSetOf2 ==
  ASSUME NEW a, NEW b
  PROVE  ToSet(<<a, b>>) = {a, b}
BY DEF ToSet

LEMMA ToSetOf3 ==
  ASSUME NEW a, NEW b, NEW c
  PROVE  ToSet(<<a, b, c>>) = {a, b, c}
BY DEF ToSet

LEMMA ToSetConcat ==
  ASSUME NEW S, NEW s \in Seq(S), NEW t \in Seq(S)
  PROVE  s \o t \in Seq(S) /\ ToSet(s \o t) = ToSet(s) \cup ToSet(t)
<1>1. ASSUME NEW x \in ToSet(s \o t) PROVE x \in ToSet(s) \cup ToSet(t)
  BY DEF ToSet
<1>2. ASSUME NEW x \in ToSet(s) PROVE x \in ToSet(s \o t)
  <2>1. PICK i \in DOMAIN s : x = s[i]
    BY DEF ToSet
  <2>2. i \in DOMAIN (s \o t) /\ (s \o t)[i] = x
    BY <2>1
  <2> QED BY <2>2 DEF ToSet
<1>3. ASSUME NEW x \in ToSet(t) PROVE x \in ToSet(s \o t)
  <2>1. PICK i \in DOMAIN t : x = t[i]
    BY DEF ToSet
  <2>2. Len(s) + i \in DOMAIN (s \o t) /\ (s \o t)[Len(s) + i] = x
    BY <2>1
  <2> QED BY <2>2 DEF ToSet
<1> QED BY <1>1, <1>2, <1>3

LEMMA ToSetTail ==
  ASSUME NEW S, NEW s \in Seq(S), s # <<>>
  PROVE  /\ Head(s) \in S /\ Tail(s) \in Seq(S)
         /\ ToSet(s) = {Head(s)} \cup ToSet(Tail(s))
<1>1. Head(s) \in S /\ Tail(s) \in Seq(S)
  OBVIOUS
<1>2. ASSUME NEW x \in ToSet(s) PROVE x \in {Head(s)} \cup ToSet(Tail(s))
  <2>1. PICK i \in DOMAIN s : x = s[i]
    BY DEF ToSet
  <2>2. CASE i = 1
    BY <2>1, <2>2
  <2>3. CASE i # 1
    <3>1. i - 1 \in DOMAIN Tail(s) /\ Tail(s)[i - 1] = x
      BY <2>1, <2>3
    <3> QED BY <3>1 DEF ToSet
  <2> QED BY <2>2, <2>3
<1>3. Head(s) \in ToSet(s)
  BY DEF ToSet
<1>4. ASSUME NEW x \in ToSet(Tail(s)) PROVE x \in ToSet(s)
  <2>1. PICK i \in DOMAIN Tail(s) : x = Tail(s)[i]
    BY DEF ToSet
  <2>2. i + 1 \in DOMAIN s /\ s[i + 1] = x
    BY <2>1
  <2> QED BY <2>2 DEF ToSet
<1> QED BY <1>1, <1>2, <1>3, <1>4

Moves == ToSet(AllMoves)
MoveType ==
  {Move("tasks/active", "tasks/active", "tree"),
   Move("tasks/archived", "tasks/archived", "tree"),
   Move("tasks/T", "tasks/active/T", "entry"),
   Move("kb/canonical", "kb/canonical", "tree"),
   Move("kb/candidates", "kb/candidates", "tree"),
   Move("kb/deprecated", "kb/deprecated", "tree"),
   Move("kb/claims", "kb/canonical/claims", "entry"),
   Move("kb/sources", "kb/sources", "entry"),
   Move("kb/manifest", "indexes/manifest", "entry"),
   Move("observability", "observability", "tree"),
   Move("shadow_runs", "shadow_runs", "tree")}

LEMMA SeqOf2And3 ==
  ASSUME NEW S, NEW a \in S, NEW b \in S, NEW c \in S
  PROVE  <<a>> \in Seq(S) /\ <<a, b>> \in Seq(S) /\ <<a, b, c>> \in Seq(S)
OBVIOUS

LEMMA Lists ==
  /\ TaskTrees \in Seq(MoveType) /\ FlatTasks \in Seq(MoveType)
  /\ KBTrees \in Seq(MoveType) /\ FlatKB \in Seq(MoveType)
  /\ Rest \in Seq(MoveType)
<1>1. TaskTrees \in Seq(MoveType)
  BY SeqOf2And3 DEF TaskTrees, MoveType
<1>2. FlatTasks \in Seq(MoveType)
  BY SeqOf2And3 DEF FlatTasks, MoveType
<1>3. KBTrees \in Seq(MoveType)
  BY SeqOf2And3 DEF KBTrees, MoveType
<1>4. FlatKB \in Seq(MoveType)
  BY SeqOf2And3 DEF FlatKB, MoveType
<1>5. Rest \in Seq(MoveType)
  BY SeqOf2And3 DEF Rest, MoveType
<1> QED BY <1>1, <1>2, <1>3, <1>4, <1>5

LEMMA ListSets ==
  /\ ToSet(TaskTrees) = {Move("tasks/active", "tasks/active", "tree"),
                         Move("tasks/archived", "tasks/archived", "tree")}
  /\ ToSet(FlatTasks) = {Move("tasks/T", "tasks/active/T", "entry")}
  /\ ToSet(KBTrees) = {Move("kb/canonical", "kb/canonical", "tree"),
                       Move("kb/candidates", "kb/candidates", "tree"),
                       Move("kb/deprecated", "kb/deprecated", "tree")}
  /\ ToSet(FlatKB) = {Move("kb/claims", "kb/canonical/claims", "entry"),
                      Move("kb/sources", "kb/sources", "entry")}
  /\ ToSet(Rest) = {Move("kb/manifest", "indexes/manifest", "entry"),
                    Move("observability", "observability", "tree"),
                    Move("shadow_runs", "shadow_runs", "tree")}
<1>1. ToSet(FlatTasks) = {Move("tasks/T", "tasks/active/T", "entry")}
  BY DEF ToSet, FlatTasks
<1> QED BY <1>1, ToSetOf2, ToSetOf3 DEF TaskTrees, KBTrees, FlatKB, Rest

LEMMA MovesAre ==
  Moves = ToSet(TaskTrees) \cup ToSet(FlatTasks) \cup ToSet(KBTrees)
            \cup ToSet(FlatKB) \cup ToSet(Rest)
<1> DEFINE two == TaskTrees \o FlatTasks
           three == two \o KBTrees
           four == three \o FlatKB
<1>1. AllMoves = four \o Rest
  BY DEF AllMoves
<1>2. two \in Seq(MoveType) /\ ToSet(two) = ToSet(TaskTrees) \cup ToSet(FlatTasks)
  BY Lists, ToSetConcat
<1> HIDE DEF two
<1>3. three \in Seq(MoveType) /\ ToSet(three) = ToSet(two) \cup ToSet(KBTrees)
  BY <1>2, Lists, ToSetConcat
<1> HIDE DEF three
<1>4. four \in Seq(MoveType) /\ ToSet(four) = ToSet(three) \cup ToSet(FlatKB)
  BY <1>3, Lists, ToSetConcat
<1> HIDE DEF four
<1>5. ToSet(four \o Rest) = ToSet(four) \cup ToSet(Rest)
  BY <1>4, Lists, ToSetConcat
<1> QED BY <1>1, <1>2, <1>3, <1>4, <1>5 DEF Moves

(* No two moves have the same source, or the same destination.             *)
LEMMA MovesApart ==
  /\ \A m, n \in Moves : m.from = n.from \/ m.to = n.to => m = n
  /\ \A m \in Moves : /\ m.from \in LegacyPaths /\ m.to \in RootPaths
                      /\ m.kind = "tree" <=> m.to \in Layout
  /\ \A path \in LegacyPaths : \E m \in Moves : m.from = path
  /\ \A m \in ToSet(TaskTrees) \cup ToSet(KBTrees) : m.kind = "tree"
  /\ \A m \in ToSet(FlatTasks) \cup ToSet(FlatKB) : m.kind = "entry"
  /\ \A m \in Moves : m.kind \in {"tree", "entry"}
<1>1. \A m \in Moves : m.to \in RootPaths
  BY DEF RootPaths, Moves
<1> QED BY <1>1, MovesAre, ListSets DEF Move, LegacyPaths, Layout

LEMMA LayoutInRoot == Layout \subseteq RootPaths
BY MovesAre, ListSets DEF RootPaths, Moves, Layout, Move

LEMMA PlanIs ==
  /\ Plan \in Seq(MoveType)
  /\ ToSet(Plan) = (IF Present(TaskTrees) THEN ToSet(TaskTrees) ELSE ToSet(FlatTasks))
                     \cup (IF Present(KBTrees) THEN ToSet(KBTrees) ELSE ToSet(FlatKB))
                     \cup ToSet(Rest)
  /\ ToSet(Plan) \subseteq Moves
<1> DEFINE tasks == IF Present(TaskTrees) THEN TaskTrees ELSE FlatTasks
           kb == IF Present(KBTrees) THEN KBTrees ELSE FlatKB
<1>1. tasks \in Seq(MoveType) /\ kb \in Seq(MoveType)
  BY Lists
<1>2. Plan = (tasks \o kb) \o Rest
  BY DEF Plan
<1>3. /\ ToSet(tasks) = IF Present(TaskTrees) THEN ToSet(TaskTrees) ELSE ToSet(FlatTasks)
      /\ ToSet(kb) = IF Present(KBTrees) THEN ToSet(KBTrees) ELSE ToSet(FlatKB)
  OBVIOUS
<1> HIDE DEF tasks, kb
<1> DEFINE two == tasks \o kb
<1>4. two \in Seq(MoveType) /\ ToSet(two) = ToSet(tasks) \cup ToSet(kb)
  BY <1>1, ToSetConcat
<1>5. Plan = two \o Rest
  BY <1>2
<1> HIDE DEF two
<1>6. two \o Rest \in Seq(MoveType) /\ ToSet(two \o Rest) = ToSet(two) \cup ToSet(Rest)
  BY <1>4, Lists, ToSetConcat
<1> QED BY <1>3, <1>4, <1>5, <1>6, MovesAre

LEMMA PresentIs ==
  ASSUME NEW moves \in Seq(MoveType)
  PROVE  Present(moves) <=> \E m \in ToSet(moves) : legacy[m.from] # Absent
BY DEF Present, ToSet

-----------------------------------------------------------------------------
(* The inductive invariant.                                                *)

Types == /\ legacy \in [LegacyPaths -> Places]
         /\ root \in [RootPaths -> Places]
         /\ pc \in {"idle", "next", "copy", "remove", "refused", "done"}
         /\ todo \in Seq(MoveType) /\ ToSet(todo) \subseteq Moves

Running == pc \in {"next", "copy", "remove"}

(* A tree whose source is there is refused: its destination was just made. *)
LaidOut == Running => \A path \in Layout : root[path] # Absent

(* What is copied goes to a directory that the script has made itself.     *)
Moving == pc \in {"copy", "remove"} =>
            /\ todo # <<>> /\ This.kind = "entry"
            /\ legacy[This.from] # Absent /\ root[This.to] # Absent
            /\ ~Holds(found.root[This.to])

CopiedWhole == pc = "remove" => legacy[This.from] \subseteq root[This.to]

(* What is still in the repository is still to be moved, or belongs to the *)
(* layout that is not looked at, next to a tree of the other.              *)
Covered == Running =>
  \A m \in Moves : legacy[m.from] # Absent =>
    \/ m \in ToSet(todo)
    \/ m \in ToSet(FlatTasks) /\ \E n \in ToSet(TaskTrees) : legacy[n.from] # Absent
    \/ m \in ToSet(FlatKB) /\ \E n \in ToSet(KBTrees) : legacy[n.from] # Absent

Inv == /\ Types /\ LaidOut /\ Moving /\ CopiedWhole /\ Covered
       /\ NothingLost /\ NothingMixed /\ DoneIsAll

LEMMA HeadIs ==
  ASSUME Types, todo # <<>>
  PROVE  /\ This \in Moves /\ This.from \in LegacyPaths /\ This.to \in RootPaths
         /\ Tail(todo) \in Seq(MoveType)
         /\ ToSet(todo) = {This} \cup ToSet(Tail(todo))
         /\ ToSet(Tail(todo)) \subseteq Moves
<1>1. todo \in Seq(MoveType) /\ ToSet(todo) \subseteq Moves
  BY DEF Types
<1>2. /\ Tail(todo) \in Seq(MoveType)
      /\ ToSet(todo) = {This} \cup ToSet(Tail(todo))
  BY <1>1, ToSetTail DEF This
<1> QED BY <1>1, <1>2, MovesApart

(* A tree is never moved.                                                  *)
LEMMA TreesAreRefused ==
  ASSUME Inv, pc = "next", todo # <<>>, ~Refuses(This)
  PROVE  This.kind = "entry" /\ root[This.to] = Absent
<1>1. This \in Moves
  BY HeadIs DEF Inv
<1>2. This.kind # "tree"
  <2> SUFFICES ASSUME This.kind = "tree" PROVE FALSE
    OBVIOUS
  <2>1. root[This.to] # Absent
    BY <1>1, MovesApart DEF Inv, LaidOut, Running
  <2> QED BY <2>1 DEF Refuses
<1>3. This.kind \in {"tree", "entry"}
  BY <1>1, MovesApart
<1> QED BY <1>2, <1>3 DEF Refuses

LEMMA RemainingIs ==
  ASSUME NEW place \in Places
  PROVE  /\ Remaining(place) \in SUBSET Entries /\ Remaining(place) # Absent
         /\ Remaining(Remaining(place)) = Remaining(place)
<1>1. ASSUME NEW s \in SUBSET Entries PROVE s # Absent
  <2>1. "absent" \in Absent
    BY DEF Absent
  <2> QED BY <2>1, EntriesAssumption
<1>2. Remaining(place) \in SUBSET Entries
  BY DEF Places, Remaining
<1>3. Remaining(place) # Absent
  BY <1>1, <1>2
<1> QED BY <1>2, <1>3 DEF Remaining

LEMMA InitInv == Init => Inv
<1> SUFFICES ASSUME Init PROVE Inv
  OBVIOUS
<1>1. Types
  <2>1. <<>> \in Seq(MoveType) /\ ToSet(<<>>) = {}
    BY DEF ToSet
  <2> QED BY <2>1, LegaciesAssumption, RootsAssumption DEF Init, Types
<1>2. NothingLost
  BY DEF Init, NothingLost
<1>3. NothingMixed
  BY DEF Init, NothingMixed
<1> QED BY <1>1, <1>2, <1>3
      DEF Init, Inv, LaidOut, Running, Moving, CopiedWhole, Covered, DoneIsAll

-----------------------------------------------------------------------------
(* Every step preserves it.                                                *)

LEMMA StartKeeps ==
  ASSUME Inv, Start PROVE Inv'
<1>1. Types'
  <2>1. \A path \in RootPaths :
          root[path] \in Places /\ Remaining(root[path]) \in SUBSET Entries
    BY RemainingIs DEF Inv, Types
  <2>2. root' \in [RootPaths -> Places]
    BY <2>1 DEF Start, Places
  <2> QED BY <2>2, PlanIs DEF Inv, Types, Start
<1>2. LaidOut'
  <2>1. ASSUME NEW path \in Layout PROVE root'[path] # Absent
    BY LayoutInRoot, RemainingIs DEF Inv, Types, Start
  <2> QED BY <2>1 DEF LaidOut
<1>3. Covered'
  <2> SUFFICES ASSUME NEW m \in Moves, legacy[m.from] # Absent
               PROVE  \/ m \in ToSet(Plan)
                      \/ m \in ToSet(FlatTasks) /\ \E n \in ToSet(TaskTrees) : legacy[n.from] # Absent
                      \/ m \in ToSet(FlatKB) /\ \E n \in ToSet(KBTrees) : legacy[n.from] # Absent
    BY DEF Covered, Start
  <2>1. /\ Present(TaskTrees) <=> \E n \in ToSet(TaskTrees) : legacy[n.from] # Absent
        /\ Present(KBTrees) <=> \E n \in ToSet(KBTrees) : legacy[n.from] # Absent
    BY Lists, PresentIs
  <2>2. m \in ToSet(TaskTrees) \cup ToSet(FlatTasks) \cup ToSet(KBTrees)
               \cup ToSet(FlatKB) \cup ToSet(Rest)
    BY MovesAre
  <2> QED BY <2>1, <2>2, PlanIs
<1>4. \A path \in RootPaths : Remaining(root'[path]) = Remaining(root[path])
  BY RemainingIs DEF Inv, Types, Start
<1>5. NothingLost'
  <2> SUFFICES ASSUME NEW move \in Moves
               PROVE  Remaining(found.legacy[move.from])
                        \subseteq Remaining(legacy[move.from]) \cup Remaining(root'[move.to])
    BY DEF NothingLost, Moves, Start
  <2>1. move.to \in RootPaths
    BY MovesApart
  <2> QED BY <1>4, <2>1 DEF Inv, NothingLost, Moves
<1>6. NothingMixed'
  <2> SUFFICES ASSUME NEW path \in RootPaths, Holds(found.root[path])
               PROVE  root'[path] = found.root[path]
    BY DEF NothingMixed, Start
  <2>1. root[path] = found.root[path] /\ root[path] # Absent
    BY DEF Inv, NothingMixed, Holds
  <2> QED BY <2>1 DEF Start, Remaining
<1> QED BY <1>1, <1>2, <1>3, <1>5, <1>6
      DEF Inv, Moving, CopiedWhole, DoneIsAll, Start

LEMMA SkipKeeps ==
  ASSUME Inv, Skip PROVE Inv'
<1>1. Types'
  BY HeadIs DEF Inv, Types, Skip
<1>2. Covered'
  <2>1. ToSet(todo) = {This} \cup ToSet(todo')
    BY HeadIs DEF Inv, Skip
  <2> QED BY <2>1 DEF Inv, Covered, Running, Skip
<1> QED BY <1>1, <1>2
      DEF Inv, LaidOut, Running, Moving, CopiedWhole, DoneIsAll, NothingLost,
          NothingMixed, Skip

LEMMA RefuseKeeps ==
  ASSUME Inv, Refuse PROVE Inv'
BY DEF Inv, Types, LaidOut, Running, Moving, CopiedWhole, Covered, DoneIsAll,
       NothingLost, NothingMixed, Refuse

LEMMA KilledKeeps ==
  ASSUME Inv, Killed PROVE Inv'
<1>1. <<>> \in Seq(MoveType) /\ ToSet(<<>>) = {}
  BY DEF ToSet
<1>2. Types'
  BY <1>1 DEF Inv, Types, Killed
<1> QED BY <1>2
      DEF Inv, LaidOut, Running, Moving, CopiedWhole, Covered, DoneIsAll,
          NothingLost, NothingMixed, Killed

(* The first use of Covered shows that no tree is left, the second that    *)
(* nothing is.                                                             *)
LEMMA FinishKeeps ==
  ASSUME Inv, Finish PROVE Inv'
<1>1. ToSet(todo) = {}
  BY DEF Finish, ToSet
<1>2. ASSUME NEW n \in Moves, n.kind = "tree" PROVE legacy[n.from] = Absent
  BY <1>1, <1>2, MovesApart DEF Inv, Covered, Running, Finish
<1>3. ASSUME NEW n \in ToSet(TaskTrees) \cup ToSet(KBTrees)
      PROVE  legacy[n.from] = Absent
  <2>1. n \in Moves /\ n.kind = "tree"
    BY MovesAre, MovesApart
  <2> QED BY <1>2, <2>1
<1>4. ASSUME NEW m \in Moves PROVE legacy[m.from] = Absent
  BY <1>1, <1>3 DEF Inv, Covered, Running, Finish
<1>5. \A path \in LegacyPaths : legacy[path] = Absent
  BY <1>4, MovesApart
<1> QED BY <1>5
      DEF Inv, Types, LaidOut, Running, Moving, CopiedWhole, Covered, DoneIsAll,
          NothingLost, NothingMixed, Finish

(* What a step leaves alone when it changes one path of either side.       *)
LEMMA ElsewhereSame ==
  ASSUME Types, NEW l \in Places, NEW r \in Places, todo # <<>>,
         legacy' = [legacy EXCEPT ![This.from] = l],
         root' = [root EXCEPT ![This.to] = r]
  PROVE  /\ legacy' \in [LegacyPaths -> Places] /\ root' \in [RootPaths -> Places]
         /\ legacy'[This.from] = l /\ root'[This.to] = r
         /\ \A m \in Moves : m # This =>
              legacy'[m.from] = legacy[m.from] /\ root'[m.to] = root[m.to]
         /\ \A path \in RootPaths : path # This.to => root'[path] = root[path]
<1>1. This \in Moves /\ This.from \in LegacyPaths /\ This.to \in RootPaths
  BY HeadIs
<1>2. ASSUME NEW m \in Moves, m # This
      PROVE  legacy'[m.from] = legacy[m.from] /\ root'[m.to] = root[m.to]
  <2>1. /\ m.from \in LegacyPaths /\ m.to \in RootPaths
        /\ m.from # This.from /\ m.to # This.to
    BY <1>1, <1>2, MovesApart
  <2> QED BY <2>1 DEF Types
<1> QED BY <1>1, <1>2 DEF Types

LEMMA RenameKeeps ==
  ASSUME Inv, Rename PROVE Inv'
<1> USE DEF Rename
<1>1. This \in Moves /\ This.from \in LegacyPaths /\ This.to \in RootPaths
  BY HeadIs DEF Inv
<1>2. This.kind = "entry" /\ root[This.to] = Absent
  BY TreesAreRefused
<1>3. legacy[This.from] \in Places /\ Absent \in Places
  BY <1>1 DEF Inv, Types, Places
<1>4. /\ legacy' \in [LegacyPaths -> Places] /\ root' \in [RootPaths -> Places]
      /\ legacy'[This.from] = Absent /\ root'[This.to] = legacy[This.from]
      /\ \A m \in Moves : m # This =>
           legacy'[m.from] = legacy[m.from] /\ root'[m.to] = root[m.to]
      /\ \A path \in RootPaths : path # This.to => root'[path] = root[path]
  BY <1>3, ElsewhereSame DEF Inv
<1>5. /\ todo' \in Seq(MoveType) /\ ToSet(todo') \subseteq Moves
      /\ ToSet(todo) = {This} \cup ToSet(todo')
  BY HeadIs DEF Inv
<1>6. Types'
  BY <1>4, <1>5 DEF Inv, Types
<1>7. LaidOut'
  BY <1>2, <1>4 DEF Inv, LaidOut, Running
<1>8. Covered'
  BY <1>1, <1>2, <1>4, <1>5, MovesApart, MovesAre DEF Inv, Covered, Running
<1>9. NothingLost'
  BY <1>1, <1>2, <1>4 DEF Inv, NothingLost, Moves, Remaining
<1>10. NothingMixed'
  BY <1>2, <1>4 DEF Inv, NothingMixed, Holds
<1> QED BY <1>6, <1>7, <1>8, <1>9, <1>10
      DEF Inv, Moving, CopiedWhole, DoneIsAll

LEMMA CopyKeeps ==
  ASSUME Inv, Copy PROVE Inv'
<1> USE DEF Copy
<1>1. This \in Moves /\ This.from \in LegacyPaths /\ This.to \in RootPaths
  BY HeadIs DEF Inv
<1>2. This.kind = "entry" /\ root[This.to] = Absent
  BY TreesAreRefused
<1>3. /\ legacy[This.from] \in Places /\ {} \in Places /\ {} # Absent
      /\ legacy' = [legacy EXCEPT ![This.from] = legacy[This.from]]
  BY <1>1 DEF Inv, Types, Places, Absent
<1>4. /\ root' \in [RootPaths -> Places] /\ root'[This.to] = {}
      /\ \A m \in Moves : m # This => root'[m.to] = root[m.to]
      /\ \A path \in RootPaths : path # This.to => root'[path] = root[path]
  BY <1>3, ElsewhereSame DEF Inv
<1>5. Types'
  BY <1>4 DEF Inv, Types
<1>6. LaidOut'
  BY <1>3, <1>4 DEF Inv, LaidOut, Running
<1>7. This' = This
  BY DEF This
<1>8. Moving'
  BY <1>1, <1>2, <1>3, <1>4, <1>7 DEF Inv, Moving, NothingMixed, Holds
<1>9. NothingLost'
  BY <1>1, <1>2, <1>4 DEF Inv, NothingLost, Moves, Remaining
<1>10. NothingMixed'
  BY <1>2, <1>4 DEF Inv, NothingMixed, Holds
<1> QED BY <1>5, <1>6, <1>8, <1>9, <1>10
      DEF Inv, CopiedWhole, Covered, Running, DoneIsAll

LEMMA CopyEntryKeeps ==
  ASSUME Inv, CopyEntry PROVE Inv'
<1>1. PICK entry \in legacy[This.from] \ root[This.to] :
        root' = [root EXCEPT ![This.to] = root[This.to] \cup {entry}]
  BY DEF CopyEntry
<1>2. /\ pc = "copy" /\ pc' = "copy" /\ todo' = todo /\ todo # <<>>
      /\ legacy' = legacy /\ found' = found
  BY DEF CopyEntry, Inv, Moving
<1>3. /\ This.kind = "entry" /\ ~Holds(found.root[This.to])
      /\ legacy[This.from] # Absent /\ root[This.to] # Absent
  BY <1>2 DEF Inv, Moving
<1>4. This \in Moves /\ This.from \in LegacyPaths /\ This.to \in RootPaths
  BY <1>2, HeadIs DEF Inv
<1> DEFINE r == root[This.to] \cup {entry}
<1>5. r \in SUBSET Entries
  BY <1>1, <1>3, <1>4 DEF Inv, Types, Places
<1>6. r \in Places /\ r # Absent /\ legacy[This.from] \in Places
  <2>1. r # Absent
    BY <1>5, EntriesAssumption DEF Absent
  <2> QED BY <1>4, <1>5, <2>1 DEF Places, Inv, Types
<1>7. legacy' = [legacy EXCEPT ![This.from] = legacy[This.from]]
  BY <1>2, <1>4 DEF Inv, Types
<1>8. /\ root' \in [RootPaths -> Places] /\ root'[This.to] = r
      /\ \A m \in Moves : m # This => root'[m.to] = root[m.to]
      /\ \A path \in RootPaths : path # This.to => root'[path] = root[path]
  <2> HIDE DEF r
  <2>1. root' = [root EXCEPT ![This.to] = r]
    BY <1>1 DEF r
  <2> QED BY <1>2, <1>6, <1>7, <2>1, ElsewhereSame DEF Inv
<1>9. This' = This
  BY <1>2 DEF This
<1>10. Types'
  BY <1>2, <1>8 DEF Inv, Types
<1>11. LaidOut'
  BY <1>2, <1>6, <1>8, LayoutInRoot DEF Inv, LaidOut, Running
<1>12. Moving'
  BY <1>2, <1>3, <1>6, <1>8, <1>9 DEF Moving
<1>13. NothingLost'
  <2> SUFFICES ASSUME NEW m \in Moves
               PROVE  Remaining(found.legacy[m.from])
                        \subseteq Remaining(legacy[m.from]) \cup Remaining(root'[m.to])
    BY <1>2 DEF NothingLost, Moves
  <2>1. Remaining(root[m.to]) \subseteq Remaining(root'[m.to])
    BY <1>3, <1>6, <1>8 DEF Remaining
  <2> QED BY <2>1 DEF Inv, NothingLost, Moves
<1>14. NothingMixed'
  BY <1>2, <1>3, <1>8 DEF Inv, NothingMixed
<1> QED BY <1>2, <1>10, <1>11, <1>12, <1>13, <1>14
      DEF Inv, CopiedWhole, Covered, Running, DoneIsAll

LEMMA CopiedKeeps ==
  ASSUME Inv, Copied PROVE Inv'
BY DEF Inv, Types, LaidOut, Running, Moving, CopiedWhole, Covered, DoneIsAll,
       NothingLost, NothingMixed, Copied, This

(* The source is removed from under a copy that is whole.                  *)
LEMMA RemoveEntryKeeps ==
  ASSUME Inv, RemoveEntry PROVE Inv'
<1>1. /\ pc = "remove" /\ todo # <<>> /\ This.kind = "entry"
      /\ legacy[This.from] # Absent /\ root[This.to] # Absent
      /\ legacy[This.from] \subseteq root[This.to] /\ ~Holds(found.root[This.to])
      /\ root' = root /\ found' = found
  BY DEF RemoveEntry, Inv, Moving, CopiedWhole
<1>2. This \in Moves /\ This.from \in LegacyPaths /\ This.to \in RootPaths
  BY <1>1, HeadIs DEF Inv
<1>3. /\ root[This.to] \in Places /\ legacy[This.from] \in SUBSET Entries
      /\ root' = [root EXCEPT ![This.to] = root[This.to]]
  BY <1>1, <1>2 DEF Inv, Types, Places
<1>4. \A m \in Moves :
        Remaining(found.legacy[m.from])
          \subseteq Remaining(legacy[m.from]) \cup Remaining(root[m.to])
  BY DEF Inv, NothingLost, Moves
<1>5. Remaining(found.legacy[This.from]) \subseteq Remaining(root[This.to])
  BY <1>1, <1>2, <1>4 DEF Remaining
<1>6. CASE Holds(legacy[This.from])
  <2>1. PICK entry \in legacy[This.from] :
          legacy' = [legacy EXCEPT ![This.from] = legacy[This.from] \ {entry}]
    BY <1>6 DEF RemoveEntry
  <2>2. pc' = pc /\ todo' = todo /\ This' = This
    BY <1>6 DEF RemoveEntry, This
  <2> DEFINE l == legacy[This.from] \ {entry}
  <2>3. l \in SUBSET Entries /\ l \in Places /\ l \subseteq root[This.to]
    BY <1>1, <1>3 DEF Places
  <2>4. l # Absent
    BY <2>3, EntriesAssumption DEF Absent
  <2>5. legacy' = [legacy EXCEPT ![This.from] = l]
    BY <2>1
  <2> HIDE DEF l
  <2>6. /\ legacy' \in [LegacyPaths -> Places] /\ legacy'[This.from] = l
        /\ \A m \in Moves : m # This => legacy'[m.from] = legacy[m.from]
    BY <1>1, <1>3, <2>3, <2>5, ElsewhereSame DEF Inv
  <2>7. Types'
    BY <1>1, <2>2, <2>6 DEF Inv, Types
  <2>8. Moving' /\ CopiedWhole'
    BY <1>1, <2>2, <2>3, <2>4, <2>6 DEF Moving, CopiedWhole
  <2>9. \A m \in Moves : legacy'[m.from] # Absent <=> legacy[m.from] # Absent
    BY <1>1, <2>4, <2>6
  <2>10. Covered'
    <3>1. \A n \in ToSet(TaskTrees) \cup ToSet(KBTrees) : n \in Moves
      BY MovesAre
    <3> QED BY <2>2, <2>9, <3>1 DEF Inv, Covered, Running
  <2>11. NothingLost'
    <3> SUFFICES ASSUME NEW m \in Moves
                 PROVE  Remaining(found.legacy[m.from])
                          \subseteq Remaining(legacy'[m.from]) \cup Remaining(root[m.to])
      BY <1>1 DEF NothingLost, Moves
    <3> QED BY <1>4, <1>5, <2>6
  <2> QED BY <1>1, <2>2, <2>7, <2>8, <2>10, <2>11
        DEF Inv, LaidOut, Running, NothingMixed, DoneIsAll
<1>7. CASE ~Holds(legacy[This.from])
  <2>1. /\ legacy' = [legacy EXCEPT ![This.from] = Absent]
        /\ pc' = "next" /\ todo' = Tail(todo)
    BY <1>7 DEF RemoveEntry
  <2>2. Absent \in Places
    BY DEF Places
  <2>3. /\ legacy' \in [LegacyPaths -> Places] /\ legacy'[This.from] = Absent
        /\ \A m \in Moves : m # This => legacy'[m.from] = legacy[m.from]
    BY <1>1, <1>3, <2>1, <2>2, ElsewhereSame DEF Inv
  <2>4. /\ todo' \in Seq(MoveType) /\ ToSet(todo') \subseteq Moves
        /\ ToSet(todo) = {This} \cup ToSet(todo')
    BY <1>1, <2>1, HeadIs DEF Inv
  <2>5. Types'
    BY <1>1, <2>1, <2>3, <2>4 DEF Inv, Types
  <2>6. Covered'
    BY <1>1, <1>2, <2>1, <2>3, <2>4, MovesApart, MovesAre DEF Inv, Covered, Running
  <2>7. NothingLost'
    <3> SUFFICES ASSUME NEW m \in Moves
                 PROVE  Remaining(found.legacy[m.from])
                          \subseteq Remaining(legacy'[m.from]) \cup Remaining(root[m.to])
      BY <1>1 DEF NothingLost, Moves
    <3> QED BY <1>4, <1>5, <2>3
  <2> QED BY <1>1, <2>1, <2>5, <2>6, <2>7
        DEF Inv, LaidOut, Running, Moving, CopiedWhole, NothingMixed, DoneIsAll
<1> QED BY <1>6, <1>7

LEMMA StutterKeeps ==
  ASSUME Inv, UNCHANGED vars PROVE Inv'
BY DEF Inv, Types, LaidOut, Running, Moving, CopiedWhole, Covered, DoneIsAll,
       NothingLost, NothingMixed, This, vars

(* The inductive invariant holds of every state migrate_runtime_state can  *)
(* leave behind.                                                           *)
THEOREM InvAlways == Spec => []Inv
<1>1. Inv /\ [Next]_vars => Inv'
  <2> SUFFICES ASSUME Inv, [Next]_vars PROVE Inv'
    OBVIOUS
  <2>1. CASE Start
    BY <2>1, StartKeeps
  <2>2. CASE Skip
    BY <2>2, SkipKeeps
  <2>3. CASE Refuse
    BY <2>3, RefuseKeeps
  <2>4. CASE Rename
    BY <2>4, RenameKeeps
  <2>5. CASE Copy
    BY <2>5, CopyKeeps
  <2>6. CASE CopyEntry
    BY <2>6, CopyEntryKeeps
  <2>7. CASE Copied
    BY <2>7, CopiedKeeps
  <2>8. CASE RemoveEntry
    BY <2>8, RemoveEntryKeeps
  <2>9. CASE Finish
    BY <2>9, FinishKeeps
  <2>10. CASE Killed
    BY <2>10, KilledKeeps
  <2>11. CASE UNCHANGED vars
    BY <2>11, StutterKeeps
  <2> QED BY <2>1, <2>2, <2>3, <2>4, <2>5, <2>6, <2>7, <2>8, <2>9, <2>10, <2>11
          DEF Next
<1> QED BY InitInv, <1>1, PTL DEF Spec

-----------------------------------------------------------------------------

(* Whatever the repository and the state root hold, and wherever the       *)
(* script is killed, refused and run again, each entry the repository held *)
(* is still there or where migrate_runtime_state puts it.                  *)
THEOREM NothingIsLost == Spec => []NothingLost
<1>1. Inv => NothingLost
  BY DEF Inv
<1> QED BY InvAlways, <1>1, PTL

(* What a state root in use held is left as it was: _move_entry and        *)
(* _move_tree never put anything into a directory that was there.          *)
THEOREM NothingIsMixed == Spec => []NothingMixed
<1>1. Inv => NothingMixed
  BY DEF Inv
<1> QED BY InvAlways, <1>1, PTL

(* The script comes to its end only with nothing left in the repository,   *)
(* also when both layouts are found in it: a tree of the one is refused    *)
(* before the paths of the other are passed over.                          *)
THEOREM DoneIsAlwaysAll == Spec => []DoneIsAll
<1>1. Inv => DoneIsAll
  BY DEF Inv
<1> QED BY InvAlways, <1>1, PTL
=============================================================================
