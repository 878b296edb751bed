------------------------------- MODULE MCRetrieval -------------------------------
(***************************************************************************)
(* An instance of PluginClient for TLC.                                    *)
(***************************************************************************)
EXTENDS PluginClient, TLC

CONSTANTS d, k, a, b   \* a document, a piece of code, two objects

MCDocuments == {d}
MCCodes == {k}
MCObjects == {a, b}

(* The last text of the packet has the id of the first.                    *)
MCTexts == <<"first", "second", "third">>
MCIdOf == [first |-> a, second |-> b, third |-> a]

MCCalls ==
  [op : {"ingest"}, arg : {d, k, None}]
  \cup {[op |-> "search", arg |-> None], [op |-> "refine", arg |-> "persist"],
        [op |-> "refine", arg |-> "inline"], [op |-> "refine", arg |-> "draft"],
        [op |-> "refine", arg |-> None]}
  \cup [op : {"promote", "audit"}, arg : {a}]
=============================================================================
