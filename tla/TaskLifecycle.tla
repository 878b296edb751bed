----------------------------- MODULE TaskLifecycle -----------------------------
(***************************************************************************)
(* What the artifact service promises about one task: a life in atomic     *)
(* steps.  A transition follows an edge of the state machine and finds its *)
(* gate open at the moment it is made; the finalization marker is placed   *)
(* once, by a finalization that finds a validated task and its experience  *)
(* packet; an archived task is a snapshot that nothing changes.            *)
(***************************************************************************)
EXTENDS TaskStateMachine

VARIABLES state,     \* None, or the state of the active task
          files,     \* the contents of its artifacts
          archived   \* [state, files] as they were when it was archived

vars == <<state, files, archived>>

NoSnapshot == [state |-> None, files |-> NoFiles]

(* A task as it may be found on disk when the service starts.              *)
Found ==
  /\ state = None => files = NoFiles
  /\ state = "WRITTEN_BACK" => Has(files, Packet) /\ Has(files, Marker)
  /\ Has(files, Marker) => Has(files, Packet)

Init ==
  /\ state \in States \cup {None}
  /\ IsFiles(files)
  /\ Found
  /\ archived = NoSnapshot

Create ==
  /\ state = None
  /\ state' = "NEW"
  /\ files' = FreshFiles
  /\ UNCHANGED archived

Put(name, content) ==
  /\ state # None
  /\ name # Marker /\ content \in ContentsOf(name)
  /\ files' = [files EXCEPT ![name] = content]
  /\ UNCHANGED <<state, archived>>

Move(target) ==
  /\ ValidTransition(files, state, target)
  /\ state' = target
  /\ UNCHANGED <<files, archived>>

Finalize ==
  /\ state \in MarkerStates
  /\ Has(files, Packet) /\ ~Has(files, Marker)
  /\ files' = [files EXCEPT ![Marker] = state]
  /\ UNCHANGED <<state, archived>>

Archive ==
  /\ state # None /\ archived = NoSnapshot
  /\ archived' = [state |-> state, files |-> files]
  /\ state' = None
  /\ files' = NoFiles

Next ==
  \/ Create
  \/ \E name \in Artifacts, content \in Contents : Put(name, content)
  \/ \E target \in States : Move(target)
  \/ Finalize
  \/ Archive

Spec == Init /\ [][Next]_vars
=============================================================================
