--------------------------------- MODULE ThinKB ---------------------------------
(***************************************************************************)
(* The Thin KB on one object id: a JSON file per tier, a row of the SQLite *)
(* manifest, the requests that move an object between tiers, the rebuild   *)
(* of the manifest, and the crash and restart of the server.               *)
(*                                                                         *)
(* As in the artifact service the handlers run in a pool of threads and    *)
(* nothing is locked but the database, one statement or transaction at a   *)
(* time.  One action is one access to a file or to the manifest.  A look   *)
(* whether a file exists and the read or unlink that follows it at once    *)
(* are one access.  The type of an object, which also is part of the path  *)
(* of its file, does not change.                                           *)
(***************************************************************************)
EXTENDS Naturals

CONSTANTS Threads,      \* worker threads of the server
          Texts,        \* what an object may say
          Calls,        \* the requests clients and operators may send
          Seeds,        \* what the server may find on disk when it starts
          MaxRevision   \* bound: no request begins on a later revision

VARIABLES file,      \* of each tier: the document in it
          row,       \* the manifest's row: None, or tier and revision
          told,      \* the tier that ledgers/kb_events/<id>.jsonl tells
          serving,   \* is the server up
          cut,       \* history: a crash cut a request off, and no later one
                     \* has gone through
          pc,        \* of each thread: the access it makes next
          mine       \* of each thread: its local variables

vars == <<file, row, told, serving, cut, pc, mine>>

None == "none"

-----------------------------------------------------------------------------
(* Data.                                                                   *)

Tiers == {"canonical", "candidate", "deprecated"}

(* `legacy' is a document that lacks a field of the current schema.        *)
Documents == [text : Texts, revision : Nat \ {0}, legacy : BOOLEAN]
NoDoc == [text |-> None, revision |-> 0, legacy |-> FALSE]

Rows == [tier : Tiers, revision : Nat \ {0}]
NoRow == [tier |-> None, revision |-> 0]

(* The object by its id, as the neighbour of another, or by a search.      *)
Reads == {"get", "related", "search"}

AllCalls == [op : {"create"}, text : Texts]
            \cup [op : Reads \cup {"promote", "deprecate", "reindex"},
                  text : {None}]

NoCall == [op |-> None, text |-> None]
Recovery == [op |-> "recover", text |-> None]

Idle == [call |-> NoCall, text |-> None, revision |-> 0, first |-> None,
         second |-> None, at |-> None, then |-> None, stale |-> NoDoc,
         saved |-> NoDoc]

ASSUME CallsAssumption == Calls \subseteq AllCalls
ASSUME TextsAssumption == None \notin Texts
ASSUME BoundAssumption == MaxRevision \in Nat
ASSUME SeedsAssumption ==
  \A seed \in Seeds : /\ seed.file \in [Tiers -> Documents \cup {NoDoc}]
                      /\ seed.row \in Rows \cup {NoRow}

PCs == {"idle", "fetch", "load", "refetch", "reload", "save", "write", "sync",
        "undo", "undo_unlink", "unlink", "unlink_first", "log", "missing",
        "migrate", "resync", "clear", "scan", "done"}

TypeOK ==
  /\ file \in [Tiers -> Documents \cup {NoDoc}]
  /\ row \in Rows \cup {NoRow}
  /\ told \in Tiers \cup {None}
  /\ serving \in BOOLEAN /\ cut \in BOOLEAN
  /\ pc \in [Threads -> PCs]
  /\ \A t \in Threads :
       /\ mine[t].call \in AllCalls \cup {NoCall, Recovery}
       /\ mine[t].text \in Texts \cup {None}
       /\ mine[t].revision \in Nat
       /\ {mine[t].first, mine[t].second, mine[t].at} \subseteq Tiers \cup {None}
       /\ mine[t].then \in PCs \cup {None}
       /\ {mine[t].stale, mine[t].saved} \subseteq Documents \cup {NoDoc}

Init ==
  /\ \E seed \in Seeds : file = seed.file /\ row = seed.row
  /\ told = row.tier
  /\ serving = TRUE /\ cut = FALSE
  /\ pc = [t \in Threads |-> "idle"]
  /\ mine = [t \in Threads |-> Idle]

-----------------------------------------------------------------------------
(* Control of a thread.                                                    *)

Step(t, label, changed) ==
  /\ pc' = [pc EXCEPT ![t] = label]
  /\ mine' = [mine EXCEPT ![t] = changed]

Goto(t, label) == Step(t, label, mine[t])
Finish(t) == Step(t, "idle", Idle)

PutFile(tier, doc) == file' = [file EXCEPT ![tier] = doc]
Unlink(tier) == IF tier = None THEN UNCHANGED file ELSE PutFile(tier, NoDoc)
PutRow(tier, revision) == row' = [tier |-> tier, revision |-> revision]

Target(op) ==
  CASE op = "create"    -> "candidate"
    [] op = "promote"   -> "canonical"
    [] op = "deprecate" -> "deprecated"
    [] OTHER            -> None

MyTarget(t) == Target(mine[t].call.op)

Begin(t) ==
  /\ serving /\ pc[t] = "idle"
  /\ \A tier \in Tiers : file[tier].revision < MaxRevision
  /\ \E c \in Calls :
        Step(t, CASE c.op = "create"  -> "refetch"
                  [] c.op = "reindex" -> "clear"
                  [] OTHER            -> "fetch",
             [Idle EXCEPT !.call = c, !.text = c.text, !.revision = 1])
  /\ UNCHANGED <<file, row, told, serving, cut>>

-----------------------------------------------------------------------------
(* get, related and search, and the start of promote_candidate and         *)
(* deprecate_object: the row, then the file it names.                      *)

Refused(op, tier) ==
  \/ op = "promote" /\ tier # "candidate"
  \/ op = "deprecate" /\ tier = "deprecated"

(* No row: a search and a list of neighbours do without the object.        *)
Unlisted(t) ==
  Goto(t, IF mine[t].call.op \in {"related", "search"} THEN "done"
                                                       ELSE "missing")

(* A file that is gone: only a list of neighbours does without.            *)
Unloaded(t) == Goto(t, IF mine[t].call.op = "related" THEN "done" ELSE "missing")

(* Faulty variant: what is already deprecated is deprecated again, what is *)
(* no candidate is promoted.                                               *)
FetchUnchecked(t) ==
  /\ pc[t] = "fetch"
  /\ IF row = NoRow
       THEN Unlisted(t)
       ELSE Step(t, "load", [mine[t] EXCEPT !.first = row.tier, !.at = row.tier])
  /\ UNCHANGED <<file, row, told, serving, cut>>

Fetch(t) ==
  /\ pc[t] = "fetch"
  /\ IF row = NoRow
       THEN Unlisted(t)
       ELSE IF Refused(mine[t].call.op, row.tier)
         THEN Finish(t)
         ELSE Step(t, "load",
                   [mine[t] EXCEPT !.first = row.tier, !.at = row.tier])
  /\ UNCHANGED <<file, row, told, serving, cut>>

(* A document that lacks a field is completed on disk by whoever loads it. *)
Continue(t, doc, next, changed) ==
  IF doc.legacy
    THEN Step(t, "migrate", [changed EXCEPT !.stale = doc, !.then = next])
    ELSE Step(t, next, changed)

(* Faulty variant: the file the row names is taken to be there.            *)
LoadUnchecked(t) ==
  /\ pc[t] = "load"
  /\ LET doc == file[mine[t].at] IN
     Continue(t, doc,
              IF mine[t].call.op \in Reads THEN "done" ELSE "refetch",
              [mine[t] EXCEPT !.text = doc.text, !.revision = doc.revision])
  /\ UNCHANGED <<file, row, told, serving, cut>>

Load(t) ==
  /\ pc[t] = "load"
  /\ LET doc == file[mine[t].at] IN
     IF doc = NoDoc
       THEN Unloaded(t)
       ELSE Continue(t, doc,
                     IF mine[t].call.op \in Reads THEN "done" ELSE "refetch",
                     [mine[t] EXCEPT !.text = doc.text,
                                     !.revision = doc.revision])
  /\ UNCHANGED <<file, row, told, serving, cut>>

Migrate(t) ==
  /\ pc[t] = "migrate"
  /\ PutFile(mine[t].at, [mine[t].stale EXCEPT !.legacy = FALSE])
  /\ Goto(t, "resync")
  /\ UNCHANGED <<row, told, serving, cut>>

Resync(t) ==
  /\ pc[t] = "resync"
  /\ PutRow(mine[t].at, mine[t].stale.revision)
  /\ Step(t, mine[t].then, [mine[t] EXCEPT !.stale = NoDoc, !.then = None])
  /\ UNCHANGED <<file, told, serving, cut>>

(* The answer: the object, or that it is not to be found.                  *)
Answer(t) ==
  /\ pc[t] = "missing" \/ (pc[t] = "done" /\ mine[t].call # Recovery)
  /\ Finish(t)
  /\ UNCHANGED <<file, row, told, serving, cut>>

-----------------------------------------------------------------------------
(* upsert: the row and its file once more, for the revision; the new file, *)
(* the row, and only then the removal of the file in the former tier.      *)

Refetch(t) ==
  /\ pc[t] = "refetch"
  /\ IF row = NoRow
       THEN Goto(t, "write")
       ELSE Step(t, "reload",
                 [mine[t] EXCEPT !.second = row.tier, !.at = row.tier])
  /\ UNCHANGED <<file, row, told, serving, cut>>

Reload(t) ==
  /\ pc[t] = "reload"
  /\ LET doc == file[mine[t].at] IN
     IF doc = NoDoc
       THEN Goto(t, "missing")
       ELSE Continue(t, doc, "save",
                     [mine[t] EXCEPT !.revision = doc.revision + 1])
  /\ UNCHANGED <<file, row, told, serving, cut>>

(* The former document is kept in memory, should the manifest fail.        *)
Save(t) ==
  /\ pc[t] = "save"
  /\ Step(t, "write", [mine[t] EXCEPT !.saved = file[mine[t].second]])
  /\ UNCHANGED <<file, row, told, serving, cut>>

(* Faulty variant: the former file is moved, not copied, to its new tier.  *)
WriteMoving(t) ==
  /\ pc[t] = "write"
  /\ file' = [tier \in Tiers |->
                IF tier = MyTarget(t)
                  THEN [text |-> mine[t].text, revision |-> mine[t].revision,
                        legacy |-> FALSE]
                  ELSE IF tier = mine[t].second THEN NoDoc ELSE file[tier]]
  /\ Goto(t, "sync")
  /\ UNCHANGED <<row, told, serving, cut>>

Write(t) ==
  /\ pc[t] = "write"
  /\ PutFile(MyTarget(t),
             [text |-> mine[t].text, revision |-> mine[t].revision,
              legacy |-> FALSE])
  /\ Goto(t, "sync")
  /\ UNCHANGED <<row, told, serving, cut>>

Sync(t) ==
  /\ pc[t] = "sync"
  /\ PutRow(MyTarget(t), mine[t].revision)
  /\ Goto(t, "unlink")
  /\ UNCHANGED <<file, told, serving, cut>>

(* The database is locked for too long, or fails: upsert puts the former   *)
(* document back and removes the new one; a load or a rebuild gives up.    *)
SyncFails(t) ==
  /\ \/ pc[t] = "sync" /\ Goto(t, "undo")
     \/ pc[t] = "resync" /\ mine[t].call # Recovery /\ Finish(t)
  /\ UNCHANGED <<file, row, told, serving, cut>>

(* Faulty variant: the new document is left where it is.                   *)
UndoNothing(t) ==
  /\ pc[t] = "undo"
  /\ Finish(t)
  /\ UNCHANGED <<file, row, told, serving, cut>>

Undo(t) ==
  /\ pc[t] = "undo"
  /\ IF mine[t].saved = NoDoc
       THEN Goto(t, "undo_unlink") /\ UNCHANGED file
       ELSE /\ PutFile(mine[t].second, mine[t].saved)
            /\ IF mine[t].second = MyTarget(t)
                 THEN Finish(t)
                 ELSE Goto(t, "undo_unlink")
  /\ UNCHANGED <<row, told, serving, cut>>

UndoUnlink(t) ==
  /\ pc[t] = "undo_unlink"
  /\ Unlink(MyTarget(t))
  /\ Finish(t)
  /\ UNCHANGED <<row, told, serving, cut>>

UnlinkFormer(t) ==
  /\ pc[t] = "unlink"
  /\ Unlink(IF mine[t].second = MyTarget(t) THEN None ELSE mine[t].second)
  /\ Goto(t, IF mine[t].call.op = "create" THEN "log" ELSE "unlink_first")
  /\ UNCHANGED <<row, told, serving, cut>>

(* promote_candidate and deprecate_object remove the file they loaded.     *)
UnlinkFirst(t) ==
  /\ pc[t] = "unlink_first"
  /\ Unlink(mine[t].first)
  /\ Goto(t, "log")
  /\ UNCHANGED <<row, told, serving, cut>>

(* candidate_created, candidate_promoted or object_deprecated, and the     *)
(* audit lines that repeat it.                                             *)
Log(t) ==
  /\ pc[t] = "log"
  /\ told' = MyTarget(t)
  /\ cut' = FALSE
  /\ Finish(t)
  /\ UNCHANGED <<file, row, serving>>

-----------------------------------------------------------------------------
(* rebuild_index: the manifest is emptied, then filled tier by tier; the   *)
(* last tier that holds a file of the object wins.                         *)

NextTier(tier) ==
  CASE tier = "canonical" -> "candidate"
    [] tier = "candidate" -> "deprecated"
    [] OTHER              -> None

(* Faulty variant: the manifest is not emptied.                            *)
ClearNothing(t) ==
  /\ pc[t] = "clear"
  /\ Step(t, "scan", [mine[t] EXCEPT !.second = "canonical"])
  /\ UNCHANGED <<file, row, told, serving, cut>>

Clear(t) ==
  /\ pc[t] = "clear"
  /\ row' = NoRow
  /\ Step(t, "scan", [mine[t] EXCEPT !.second = "canonical"])
  /\ UNCHANGED <<file, told, serving, cut>>

Scan(t) ==
  /\ pc[t] = "scan"
  /\ LET tier == mine[t].second
         doc  == file[tier]
         next == IF NextTier(tier) = None THEN "done" ELSE "scan"
         moved == [mine[t] EXCEPT !.second = NextTier(tier), !.at = tier]
     IN  IF doc = NoDoc
           THEN Step(t, next, moved)
           ELSE Step(t, IF doc.legacy THEN "migrate" ELSE "resync",
                     [moved EXCEPT !.stale = doc, !.then = next])
  /\ UNCHANGED <<file, row, told, serving, cut>>

-----------------------------------------------------------------------------
(* Crash and restart.  The constructor of the store compares the paths on  *)
(* disk with those in the manifest and rebuilds it if they differ, for     *)
(* this object or for another.                                             *)

Acting(t) == pc[t] \in {"sync", "undo", "undo_unlink", "unlink",
                        "unlink_first", "log"}

Crash ==
  /\ serving' = FALSE
  /\ serving \/ \E t \in Threads : pc[t] # "idle"
  /\ pc' = [t \in Threads |-> "idle"]
  /\ mine' = [t \in Threads |-> Idle]
  /\ cut' = (cut \/ \E t \in Threads : Acting(t))
  /\ UNCHANGED <<file, row, told>>

OnDisk == {tier \in Tiers : file[tier] # NoDoc}
InManifest == IF row = NoRow THEN {} ELSE {row.tier}

(* Faulty variant: the numbers of paths are compared.                      *)
RestartCounting(t) ==
  /\ ~serving /\ \A u \in Threads : pc[u] = "idle"
  /\ \/ Step(t, "clear", [Idle EXCEPT !.call = Recovery]) /\ UNCHANGED serving
     \/ /\ (OnDisk = {}) = (InManifest = {})
        /\ serving' = TRUE /\ UNCHANGED <<pc, mine>>
  /\ UNCHANGED <<file, row, told, cut>>

Restart(t) ==
  /\ ~serving /\ \A u \in Threads : pc[u] = "idle"
  /\ \/ Step(t, "clear", [Idle EXCEPT !.call = Recovery]) /\ UNCHANGED serving
     \/ /\ OnDisk = InManifest
        /\ serving' = TRUE /\ UNCHANGED <<pc, mine>>
  /\ UNCHANGED <<file, row, told, cut>>

Recovered(t) ==
  /\ pc[t] = "done" /\ mine[t].call = Recovery
  /\ serving' = TRUE
  /\ Finish(t)
  /\ UNCHANGED <<file, row, told, cut>>

-----------------------------------------------------------------------------

Read(t) == Fetch(t) \/ Load(t) \/ Migrate(t) \/ Resync(t) \/ Answer(t)
Upsert(t) ==
  \/ Refetch(t) \/ Reload(t) \/ Save(t) \/ Write(t) \/ Sync(t)
  \/ SyncFails(t) \/ Undo(t) \/ UndoUnlink(t)
Settle(t) == UnlinkFormer(t) \/ UnlinkFirst(t) \/ Log(t)
Rebuild(t) == Clear(t) \/ Scan(t) \/ Restart(t) \/ Recovered(t)

Next ==
  Crash \/ \E t \in Threads :
             Begin(t) \/ Read(t) \/ Upsert(t) \/ Settle(t) \/ Rebuild(t)

Spec == Init /\ [][Next]_vars

-----------------------------------------------------------------------------
(* Properties of a server that serves one request at a time, crashes and   *)
(* failures of the database included.                                      *)

Quiescent == serving /\ \A t \in Threads : pc[t] = "idle"

(* The tier whose file a rebuild puts into the manifest last.              *)
Winner(files) ==
  IF files["deprecated"] # NoDoc THEN "deprecated"
  ELSE IF files["candidate"] # NoDoc THEN "candidate"
  ELSE IF files["canonical"] # NoDoc THEN "canonical"
  ELSE None

(* The row and the file it names never come apart: at every moment, and so *)
(* after a crash at any, what search and get find can be read.             *)
Backed == row # NoRow => file[row.tier] # NoDoc

(* A server that is up and idle, after however many crashes, has a row for *)
(* the object if there is a file of it, for the tier a rebuild would give  *)
(* it, and of the revision of the document unless a crash cut short the    *)
(* request that wrote it.                                                  *)
IndexAgrees ==
  Quiescent =>
    /\ row.tier = Winner(file)
    /\ row # NoRow /\ ~cut => row.revision = file[row.tier].revision

(* The last event of the object tells the tier it is in: what has been     *)
(* answered survives the crashes that follow, and a request whose manifest *)
(* update failed has left no trace.                                        *)
LedgerFollows == Quiescent /\ ~cut => told = Winner(file)

(* No read comes back empty, and no search fails, while there is a file of *)
(* the object: neither after a crash nor after a request that was undone.  *)
EmptyHanded(t) ==
  /\ mine[t].call.op \in Reads /\ mine[t].text = None
  /\ pc[t] \in {"missing", "done"}

NotFoundMeansAbsent ==
  \A t \in Threads : EmptyHanded(t) => OnDisk = {} /\ row = NoRow

(* The files as they stand if the request under way fails: what it has     *)
(* written does not count before the manifest has it, unless the server    *)
(* dies first.                                                             *)
Undoable(t) == pc[t] \in {"sync", "undo", "undo_unlink"}

Standing ==
  [tier \in Tiers |->
     IF \E t \in Threads : Undoable(t) /\ tier = MyTarget(t)
       THEN LET t == CHOOSE u \in Threads : Undoable(u) /\ tier = MyTarget(u)
            IN  IF mine[t].second = tier THEN mine[t].saved ELSE NoDoc
       ELSE file[tier]]

Served ==
  LET tier == Winner(Standing)
      doc  == IF tier = None THEN NoDoc ELSE Standing[tier]
  IN  [tier |-> tier, text |-> doc.text, revision |-> doc.revision]

(* What a restart would serve changes as the abstract KB does, by whole    *)
(* creations, promotions and deprecations: a crash between the writes of   *)
(* one leaves it either made or not begun.                                 *)
Knowledge == INSTANCE KnowledgeBase WITH object <- Served

RefinesKnowledgeBase == Knowledge!Spec

-----------------------------------------------------------------------------
(* Properties that hold whatever the interleaving.                         *)

(* However racing requests have left the files and the manifest, a restart *)
(* that comes to its end serves what is there.                             *)
RecoveryRestores ==
  [][~serving /\ serving' => row'.tier = Winner(file')]_vars
=============================================================================
