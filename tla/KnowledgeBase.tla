----------------------------- MODULE KnowledgeBase -----------------------------
(***************************************************************************)
(* What the Thin KB promises about one object id: an object that is        *)
(* created as a candidate, promoted once from there, deprecated from       *)
(* wherever it is, and created again as a candidate at any time.  Each of  *)
(* these is one step, raises the revision by one, and none but a creation  *)
(* changes what the object says.                                           *)
(***************************************************************************)
EXTENDS Naturals

CONSTANT Texts

Tiers == {"canonical", "candidate", "deprecated"}
None == "none"
NoObject == [tier |-> None, text |-> None, revision |-> 0]

VARIABLE object   \* NoObject, or its tier, text and revision

IsObject(o) == o \in [tier : Tiers, text : Texts, revision : Nat \ {0}]

Init == object = NoObject \/ IsObject(object)

Raised == object.revision + 1

Create(text) ==
  object' = [tier |-> "candidate", text |-> text, revision |-> Raised]

Move(tier) ==
  object' = [tier |-> tier, text |-> object.text, revision |-> Raised]

Promote == object # NoObject /\ object.tier = "candidate" /\ Move("canonical")

Deprecate == object # NoObject /\ object.tier # "deprecated" /\ Move("deprecated")

Next == (\E text \in Texts : Create(text)) \/ Promote \/ Deprecate

Spec == Init /\ [][Next]_object
=============================================================================
