---------------------------- MODULE MCArtifactStore ----------------------------
(***************************************************************************)
(* Instances of ArtifactStore for TLC: the requests clients send and the   *)
(* tasks found on disk, for a server with one worker thread and for one    *)
(* with two.                                                               *)
(***************************************************************************)
EXTENDS ArtifactStore, TLC

Request(op) == [op |-> op, target |-> None, name |-> None, content |-> None]
UpdateTo(states) == {[Request("update") EXCEPT !.target = s] : s \in states}
Writes(name, contents) ==
  {[Request("put") EXCEPT !.name = name, !.content = c] : c \in contents}

(* Every artifact, all of them favourable, except the ones given.          *)
Complete ==
  [name \in Artifacts |->
     CASE name \in Reviews -> "approve"
       [] name = Report    -> "passed"
       [] name = Marker    -> Missing
       [] OTHER            -> "present"]

Seed(state, previous, legacy, contents) ==
  [record |-> [state |-> state, previous |-> previous, legacy |-> legacy],
   files |-> contents]

NoTask == [record |-> NoRecord, files |-> NoFiles]

-----------------------------------------------------------------------------
(* One thread: the whole life of a task, over the artifacts whose presence *)
(* or content can turn a gate either way at each phase.                    *)

SerialCalls ==
  {Request(op) : op \in {"create", "get", "finalize", "archive"}}
  \cup UpdateTo(States)
  \cup Writes("impl-review.json", {"approve", "conditions_open", "reject"})
  \cup Writes(Report, {"passed", "testspec_weakness"})
  \cup Writes(Packet, {"present"})
  \cup Writes(Marker, {"RELEASED"})

SerialSeeds ==
  {NoTask,
   Seed("NEW", None, TRUE,
        [Complete EXCEPT ![Packet] = Missing, !["impl-review.json"] = Missing,
                         !["impl-review.md"] = "conditions_open",
                         ![Report] = Missing])}

(* Bound: an archived id is followed further only if the task was new or   *)
(* released, and no further than the first artifact of its second life.    *)
SecondLifeShort ==
  archived # NoSnapshot =>
    /\ archived.record.state \in {"NEW", "RELEASED"}
    /\ files \in {NoFiles, FreshFiles}

-----------------------------------------------------------------------------
(* Two threads on a task that is about to be released and written back:    *)
(* transitions both ways, finalizations, writes, archives and re-creations *)
(* of the id race with each other.                                         *)

RaceCalls ==
  {Request(op) : op \in {"create", "get", "finalize", "archive"}}
  \cup UpdateTo({"IMPLEMENTED", "RELEASED", "WRITTEN_BACK"})
  \cup Writes(Packet, {"present"})

RaceSeeds ==
  {Seed("VALIDATED", "IMPL_APPROVED", TRUE,
        [Complete EXCEPT ![Packet] = Missing])}

(* Two transitions of one task, no finalization or archive in between.     *)
OverlapCalls == UpdateTo({"IMPLEMENTED", "RELEASED"})
OverlapSeeds == {Seed("VALIDATED", "IMPL_APPROVED", FALSE, Complete)}

ThreadSymmetry == Permutations(Threads)
=============================================================================
