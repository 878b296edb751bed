------------------------------- MODULE MCRecovery -------------------------------
(***************************************************************************)
(* Instances of Recovery for TLC: one thread of the KB, every change of an *)
(* object, and the operator's two commands.                                *)
(***************************************************************************)
EXTENDS Recovery

Request(op) == [op |-> op, text |-> None]
Document(text) == [text |-> text, revision |-> 1, legacy |-> FALSE]
NoFile == [tier \in Tiers |-> NoDoc]

Changes == [op : {"create"}, text : Texts]
           \cup {Request(op) : op \in {"promote", "deprecate"}}

(* A candidate or a canonical object: each move of an object is one change *)
(* away, and fits between any two steps of the walk.                       *)
Present ==
  {[file |-> [NoFile EXCEPT ![tier] = Document(text)],
    row |-> [tier |-> tier, revision |-> 1]] :
       tier \in {"candidate", "canonical"}, text \in Texts}
=============================================================================
