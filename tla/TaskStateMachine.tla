--------------------------- MODULE TaskStateMachine ---------------------------
(***************************************************************************)
(* The pure part of the task lifecycle: the states of a task, the edges    *)
(* between them and the gate each target state puts on the artifacts of    *)
(* the task (packages/core/storage/state_machine.py).                      *)
(*                                                                         *)
(* A task directory is a function `files' from artifact names to contents. *)
(* Only the artifacts a gate looks at are kept.  A content is what a gate  *)
(* can tell of it: nothing more than its presence, the verdict of a        *)
(* review, the outcome of a validation report, or the state recorded in    *)
(* the finalization marker.                                                *)
(***************************************************************************)
EXTENDS Naturals

None == "none"

Rank == [NEW |-> 0, EVIDENCE_READY |-> 1, DESIGN_APPROVED |-> 2,
         TESTSPEC_FROZEN |-> 3, IMPLEMENTED |-> 4, IMPL_APPROVED |-> 5,
         VALIDATED |-> 6, RELEASED |-> 7, WRITTEN_BACK |-> 8]

States == DOMAIN Rank

AtLeast(current, minimum) == Rank[current] >= Rank[minimum]

NextState == {<<"NEW", "EVIDENCE_READY">>,
              <<"EVIDENCE_READY", "DESIGN_APPROVED">>,
              <<"DESIGN_APPROVED", "TESTSPEC_FROZEN">>,
              <<"TESTSPEC_FROZEN", "IMPLEMENTED">>,
              <<"IMPLEMENTED", "IMPL_APPROVED">>,
              <<"IMPL_APPROVED", "VALIDATED">>,
              <<"VALIDATED", "RELEASED">>,
              <<"RELEASED", "WRITTEN_BACK">>}

Rework == {"IMPLEMENTED", "DESIGN_APPROVED", "TESTSPEC_FROZEN"}

Rollbacks == {<<"DESIGN_APPROVED", "EVIDENCE_READY">>,
              <<"TESTSPEC_FROZEN", "DESIGN_APPROVED">>,
              <<"IMPL_APPROVED", "IMPLEMENTED">>,
              <<"RELEASED", "VALIDATED">>,
              <<"WRITTEN_BACK", "RELEASED">>,
              <<"WRITTEN_BACK", "VALIDATED">>}
             \cup ({"VALIDATED", "RELEASED", "WRITTEN_BACK"} \X Rework)

Edges == NextState \cup Rollbacks

-----------------------------------------------------------------------------
(* Artifacts and what a gate can tell of their contents.                   *)

Missing == "missing"
Marker == "finalization.json"
Packet == "experience-packet.json"
Report == "validation-report.json"

Reviews == {"design-review.json", "design-review.md",
            "impl-review.json", "impl-review.md"}

Plain == {"task-brief.json", "evidence-pack.json", "design-spec.json",
          "design-spec.md", "test-spec.json", "acceptance.json", "patch.diff",
          "changed-files.json", "selftest.json", "regression.json",
          "adr.json", "adr.md", "changelog.md", Packet}

Artifacts == Plain \cup Reviews \cup {Report, Marker}

(* approve_with_conditions is "open" while its list of demands (of a JSON  *)
(* review) is not empty or conditions_resolved (of a Markdown one) is not  *)
(* "true", and "closed" afterwards.                                        *)
Verdicts == {"approve", "conditions_open", "conditions_closed", "reject"}

Outcomes == {"passed", "implementation_defect", "design_ambiguity",
             "testspec_weakness", "environment_issue"}

MarkerStates == {"VALIDATED", "RELEASED", "WRITTEN_BACK"}

Contents == {Missing, "present"} \cup Verdicts \cup Outcomes \cup MarkerStates

ContentsOf(name) ==
  CASE name \in Reviews -> Verdicts
    [] name = Report    -> Outcomes
    [] name = Marker    -> MarkerStates
    [] OTHER            -> {"present"}

IsFiles(files) ==
  /\ files \in [Artifacts -> Contents]
  /\ \A name \in Artifacts : files[name] \in ContentsOf(name) \cup {Missing}

NoFiles == [name \in Artifacts |-> Missing]

(* What create_task leaves: empty stage directories and the task brief.    *)
FreshFiles == [NoFiles EXCEPT !["task-brief.json"] = "present"]

-----------------------------------------------------------------------------
(* Gates.                                                                  *)

Has(files, name) == files[name] # Missing

(* What the gate calls an approval with demands outstanding: it reads the  *)
(* list `required_changes', which a DesignReview has and an ImplReview (it *)
(* calls the list required_fixes) does not.                                *)
DemandsSeen(name, content) ==
  content = "conditions_open" /\ name = "design-review.json"

ReviewGate(files, json, markdown) ==
  IF Has(files, json)
    THEN files[json] # "reject" /\ ~DemandsSeen(json, files[json])
    ELSE files[markdown] \in {"approve", "conditions_closed"}

GateOpen(files, target) ==
  CASE target = "EVIDENCE_READY" ->
         Has(files, "task-brief.json") /\ Has(files, "evidence-pack.json")
    [] target = "DESIGN_APPROVED" ->
         /\ Has(files, "design-spec.json") \/ Has(files, "design-spec.md")
         /\ ReviewGate(files, "design-review.json", "design-review.md")
    [] target = "TESTSPEC_FROZEN" ->
         Has(files, "test-spec.json") /\ Has(files, "acceptance.json")
    [] target = "IMPLEMENTED" ->
         \A name \in {"patch.diff", "changed-files.json", "selftest.json"} :
            Has(files, name)
    [] target = "IMPL_APPROVED" ->
         ReviewGate(files, "impl-review.json", "impl-review.md")
    [] target = "VALIDATED" ->
         Has(files, "regression.json") /\ files[Report] = "passed"
    [] target = "RELEASED" ->
         /\ Has(files, "adr.json") \/ Has(files, "adr.md")
         /\ Has(files, "changelog.md")
    [] target = "WRITTEN_BACK" -> Has(files, Packet) /\ Has(files, Marker)
    [] OTHER -> TRUE

ValidTransition(files, current, target) ==
  <<current, target>> \in Edges /\ GateOpen(files, target)
=============================================================================
