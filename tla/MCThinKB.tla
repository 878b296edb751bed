-------------------------------- MODULE MCThinKB --------------------------------
(***************************************************************************)
(* Instances of ThinKB for TLC: the requests and the objects found on      *)
(* disk, for a server with one worker thread and for one with two.         *)
(***************************************************************************)
EXTENDS ThinKB, TLC

Creates == [op : {"create"}, text : Texts]
Request(op) == [op |-> op, text |-> None]

NoFile == [tier \in Tiers |-> NoDoc]
Only(tier, text, legacy) ==
  [file |-> [NoFile EXCEPT ![tier] = [text |-> text, revision |-> 1,
                                      legacy |-> legacy]],
   row |-> [tier |-> tier, revision |-> 1]]

-----------------------------------------------------------------------------
(* One thread: every request, from no object and from a document of an     *)
(* older schema in each tier.                                              *)

SerialCalls == Creates \cup {Request(op) : op \in Reads \cup {"promote", "deprecate"}}

SerialSeeds ==
  {[file |-> NoFile, row |-> NoRow]}
  \cup {Only(tier, text, TRUE) : tier \in Tiers, text \in Texts}

(* Two threads, and an operator who rebuilds the manifest meanwhile.       *)
RaceCalls == Creates \cup {Request(op) : op \in {"get", "promote", "deprecate",
                                                 "reindex"}}
RaceSeeds == {Only("candidate", text, TRUE) : text \in Texts}

(* Bound: a race on the last revision allowed goes one beyond it.          *)
Overshoot == \A tier \in Tiers : file[tier].revision <= MaxRevision + 1

ThreadSymmetry == Permutations(Threads)
=============================================================================
