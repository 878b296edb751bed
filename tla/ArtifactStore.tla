----------------------------- MODULE ArtifactStore -----------------------------
(***************************************************************************)
(* The artifact service on one task id: every request of the HTTP API as   *)
(* the sequence of file-system accesses it makes, interleaved with those   *)
(* of the other worker threads, and a crash of the server at any point.    *)
(*                                                                         *)
(* The handlers are synchronous functions that FastAPI runs in a pool of   *)
(* threads; neither the service nor the store takes a lock.  One action is *)
(* one access another thread can observe: a look at the directory, a read  *)
(* of state.json, a temp-file-and-rename write, the rename of a directory, *)
(* the append of a ledger line.  The looks of one gate at several          *)
(* artifacts are one access.  An access of one task id never touches the   *)
(* files of another.                                                       *)
(***************************************************************************)
EXTENDS TaskStateMachine

CONSTANTS Threads,   \* worker threads of the server
          Calls,     \* the requests clients may send
          Seeds      \* the tasks the server may find on disk when it starts

VARIABLES root,      \* does tasks/active/<id> exist
          record,    \* its state.json
          files,     \* its other artifacts
          archived,  \* tasks/archived/<id>
          told,      \* the state that ledgers/task_events/<id>.jsonl tells
          audited,   \* does ledgers/audits hold a task_archived line of it
          pc,        \* of each thread: the access it makes next
          call,      \* of each thread: the request it serves
          prior,     \* of each thread: the state the service read
          current,   \* of each thread: the state the store read last
          stale,     \* of each thread: the legacy record it is migrating
          cut        \* history: a crash cut a request off from its event

disk == <<root, record, files, archived>>
locals == <<call, prior, current, stale>>
ledger == <<told, audited>>
vars == <<disk, ledger, pc, locals, cut>>

-----------------------------------------------------------------------------
(* Data.                                                                   *)

(* `legacy' is a record written before artifact_schema_version existed.    *)
Records == [state : States, previous : States \cup {None}, legacy : BOOLEAN]
NoRecord == [state |-> None, previous |-> None, legacy |-> FALSE]

NoSnapshot == [record |-> NoRecord, files |-> NoFiles]

Ops == {"create", "get", "put", "update", "finalize", "archive"}

NoCall == [op |-> None, target |-> None, name |-> None, content |-> None]

AllCalls ==
  [op : {"create", "get", "finalize", "archive"},
   target : {None}, name : {None}, content : {None}]
  \cup [op : {"update"}, target : States, name : {None}, content : {None}]
  \cup {c \in [op : {"put"}, target : {None}, name : Artifacts,
               content : Contents] : c.content \in ContentsOf(c.name)}

IsSeed(seed) ==
  /\ seed.record \in Records \cup {NoRecord}
  /\ IsFiles(seed.files)
  /\ seed.record = NoRecord => seed.files = NoFiles
  /\ Has(seed.files, Marker) => Has(seed.files, Packet)
  /\ seed.record.state = "WRITTEN_BACK" => Has(seed.files, Marker)
  /\ \/ seed.record.previous = None
     \/ <<seed.record.previous, seed.record.state>> \in Edges

ASSUME CallsAssumption == Calls \subseteq AllCalls
ASSUME SeedsAssumption ==
  \A seed \in Seeds : seed \in [record : Records \cup {NoRecord},
                                files : {seed.files}] /\ IsSeed(seed)

PCs == {"idle", "create", "publish", "read", "migrate", "prior", "current",
        "gate", "write", "reread", "check", "mark", "marked", "answer",
        "put", "put_write", "put_read", "archive", "rename",
        "accept", "audit", "reject"}

TypeOK ==
  /\ root \in BOOLEAN
  /\ record \in Records \cup {NoRecord}
  /\ IsFiles(files)
  /\ archived.record \in Records \cup {NoRecord}
  /\ IsFiles(archived.files)
  /\ archived = [record |-> archived.record, files |-> archived.files]
  /\ told \in States \cup {None}
  /\ audited \in BOOLEAN
  /\ pc \in [Threads -> PCs]
  /\ call \in [Threads -> AllCalls \cup {NoCall}]
  /\ prior \in [Threads -> States \cup {None}]
  /\ current \in [Threads -> States \cup {None}]
  /\ stale \in [Threads -> Records \cup {NoRecord}]
  /\ cut \in BOOLEAN

Init ==
  /\ \E seed \in Seeds :
        /\ record = seed.record
        /\ files = seed.files
        /\ root = (seed.record # NoRecord)
        /\ told = seed.record.state
  /\ audited = FALSE
  /\ archived = NoSnapshot
  /\ pc = [t \in Threads |-> "idle"]
  /\ call = [t \in Threads |-> NoCall]
  /\ prior = [t \in Threads |-> None]
  /\ current = [t \in Threads |-> None]
  /\ stale = [t \in Threads |-> NoRecord]
  /\ cut = FALSE

-----------------------------------------------------------------------------
(* Accesses to the disk.                                                   *)

(* write_text_atomic makes the parent directory, and so the root, anew if  *)
(* the task has been archived meanwhile.                                   *)
WriteRecord(new) ==
  root' = TRUE /\ record' = new /\ UNCHANGED <<files, archived>>

WriteFile(name, content) ==
  /\ root' = TRUE
  /\ files' = [files EXCEPT ![name] = content]
  /\ UNCHANGED <<record, archived>>

(* get_task succeeds: the root, the brief and the state record are there.  *)
Readable == root /\ Has(files, "task-brief.json") /\ record # NoRecord

Target(c) == IF c.op = "finalize" THEN "WRITTEN_BACK" ELSE c.target

-----------------------------------------------------------------------------
(* Control of a thread.                                                    *)

Goto(t, label) == pc' = [pc EXCEPT ![t] = label]

(* The answer, or an exception the route turns into one, without a ledger  *)
(* line.                                                                   *)
Finish(t) ==
  /\ Goto(t, "idle")
  /\ call' = [call EXCEPT ![t] = NoCall]
  /\ prior' = [prior EXCEPT ![t] = None]
  /\ current' = [current EXCEPT ![t] = None]
  /\ stale' = [stale EXCEPT ![t] = NoRecord]

Step(t, label) == Goto(t, label) /\ UNCHANGED locals

(* Go on with the request, or end it unlogged when the file it needs is    *)
(* gone: NotFoundError is no service handler's business.                   *)
StepIf(t, found, label) == IF found THEN Step(t, label) ELSE Finish(t)

FirstAccess(op) ==
  IF op \in {"get", "update", "finalize"} THEN "read" ELSE op

Begin(t) ==
  /\ pc[t] = "idle"
  /\ \E c \in Calls :
        /\ call' = [call EXCEPT ![t] = c]
        /\ Goto(t, FirstAccess(c.op))
  /\ UNCHANGED <<disk, ledger, prior, current, stale, cut>>

-----------------------------------------------------------------------------
(* create_task: a staged directory renamed into place.                     *)

CreateCheck(t) ==
  /\ pc[t] = "create"
  /\ Step(t, IF root THEN "reject" ELSE "publish")
  /\ UNCHANGED <<disk, ledger, cut>>

(* Faulty variant: the rename replaces a directory made meanwhile.         *)
CreatePublishOver(t) ==
  /\ pc[t] = "publish"
  /\ root' = TRUE
  /\ record' = [state |-> "NEW", previous |-> None, legacy |-> FALSE]
  /\ files' = FreshFiles
  /\ Step(t, "reread")
  /\ UNCHANGED <<archived, ledger, cut>>

CreatePublish(t) ==
  /\ pc[t] = "publish"
  /\ IF root
       THEN Step(t, "reject") /\ UNCHANGED disk
       ELSE /\ root' = TRUE
            /\ record' = [state |-> "NEW", previous |-> None, legacy |-> FALSE]
            /\ files' = FreshFiles
            /\ UNCHANGED archived
            /\ Step(t, "reread")
  /\ UNCHANGED <<ledger, cut>>

(* get_task at the end of create_task and of update_state, after which     *)
(* finalize_experience still reads the state for its answer.               *)
Reread(t) ==
  /\ pc[t] = "reread"
  /\ StepIf(t, Readable,
            IF call[t].op = "finalize" THEN "answer" ELSE "accept")
  /\ UNCHANGED <<disk, ledger, cut>>

-----------------------------------------------------------------------------
(* Reading state.json: a record without a schema version is migrated and   *)
(* written back by whoever reads it, a GET included.                       *)

AfterRead(op) ==
  CASE op = "get"    -> "idle"
    [] op = "update" -> "prior"
    [] OTHER         -> "check"

(* The first read of GET, of PATCH state (by the route, for its log line)  *)
(* and of finalize_experience.                                             *)
Read(t) ==
  LET op == call[t].op IN
  /\ pc[t] = "read"
  /\ IF record = NoRecord \/ (op = "get" /\ ~Readable)
        \/ (op = "get" /\ ~record.legacy)
       THEN Finish(t)
       ELSE /\ Goto(t, IF record.legacy THEN "migrate" ELSE AfterRead(op))
            /\ stale' = [stale EXCEPT
                            ![t] = IF record.legacy THEN record ELSE NoRecord]
            /\ current' = [current EXCEPT
                             ![t] = IF op = "finalize" THEN record.state ELSE @]
            /\ UNCHANGED <<call, prior>>
  /\ UNCHANGED <<disk, ledger, cut>>

Migrate(t) ==
  /\ pc[t] = "migrate"
  /\ WriteRecord([stale[t] EXCEPT !.legacy = FALSE])
  /\ IF call[t].op = "get"
       THEN Finish(t)
       ELSE /\ Goto(t, AfterRead(call[t].op))
            /\ stale' = [stale EXCEPT ![t] = NoRecord]
            /\ UNCHANGED <<call, prior, current>>
  /\ UNCHANGED <<ledger, cut>>

-----------------------------------------------------------------------------
(* update_state: the service reads the state it will log, the store reads  *)
(* it again, checks edge and gate, and writes the new record.              *)

ReadPrior(t) ==
  /\ pc[t] = "prior"
  /\ IF record = NoRecord
       THEN Finish(t)
       ELSE /\ prior' = [prior EXCEPT ![t] = record.state]
            /\ Goto(t, "current")
            /\ UNCHANGED <<call, current, stale>>
  /\ UNCHANGED <<disk, ledger, cut>>

ReadCurrent(t) ==
  /\ pc[t] = "current"
  /\ IF record = NoRecord
       THEN Finish(t)
       ELSE /\ current' = [current EXCEPT ![t] = record.state]
            /\ Goto(t, IF record.state = Target(call[t])
                         THEN "reject" ELSE "gate")
            /\ UNCHANGED <<call, prior, stale>>
  /\ UNCHANGED <<disk, ledger, cut>>

(* Faulty variant: the edge is checked and the gate is not.                *)
GateUnchecked(t) ==
  /\ pc[t] = "gate"
  /\ Step(t, IF <<current[t], Target(call[t])>> \in Edges
               THEN "write" ELSE "reject")
  /\ UNCHANGED <<disk, ledger, cut>>

Gate(t) ==
  /\ pc[t] = "gate"
  /\ Step(t, IF ValidTransition(files, current[t], Target(call[t]))
               THEN "write" ELSE "reject")
  /\ UNCHANGED <<disk, ledger, cut>>

(* Faulty variants: previous_state is read again when the record is        *)
(* written, or copied from the old record; the answer is given before the  *)
(* event is appended.                                                      *)
WriteStateFresh(t) ==
  /\ pc[t] = "write"
  /\ WriteRecord([state |-> Target(call[t]), previous |-> record.state,
                  legacy |-> FALSE])
  /\ Step(t, "reread")
  /\ UNCHANGED <<ledger, cut>>

WriteStateCopied(t) ==
  /\ pc[t] = "write"
  /\ WriteRecord([record EXCEPT !.state = Target(call[t]), !.legacy = FALSE])
  /\ Step(t, "reread")
  /\ UNCHANGED <<ledger, cut>>

WriteStateAnswered(t) ==
  /\ pc[t] = "write"
  /\ WriteRecord([state |-> Target(call[t]), previous |-> current[t],
                  legacy |-> FALSE])
  /\ Finish(t)
  /\ UNCHANGED <<ledger, cut>>

WriteState(t) ==
  /\ pc[t] = "write"
  /\ WriteRecord([state |-> Target(call[t]), previous |-> current[t],
                  legacy |-> FALSE])
  /\ Step(t, "reread")
  /\ UNCHANGED <<ledger, cut>>

-----------------------------------------------------------------------------
(* finalize_experience: the marker first, then the transition to           *)
(* WRITTEN_BACK by update_state if the task is released.                   *)

(* Faulty variants: no look at the state, no look at the packet.           *)
FinalizeCheckAnyState(t) ==
  /\ pc[t] = "check"
  /\ Step(t, IF Has(files, Packet)
               THEN IF Has(files, Marker) THEN "marked" ELSE "mark"
               ELSE "reject")
  /\ UNCHANGED <<disk, ledger, cut>>

FinalizeCheckNoPacket(t) ==
  /\ pc[t] = "check"
  /\ Step(t, IF AtLeast(current[t], "VALIDATED")
               THEN IF Has(files, Marker) THEN "marked" ELSE "mark"
               ELSE "reject")
  /\ UNCHANGED <<disk, ledger, cut>>

FinalizeCheck(t) ==
  /\ pc[t] = "check"
  /\ Step(t, IF AtLeast(current[t], "VALIDATED") /\ Has(files, Packet)
               THEN IF Has(files, Marker) THEN "marked" ELSE "mark"
               ELSE "reject")
  /\ UNCHANGED <<disk, ledger, cut>>

WritesBack(state) == AtLeast(state, "RELEASED") /\ state # "WRITTEN_BACK"

AfterMarker(state) == IF WritesBack(state) THEN "current" ELSE "answer"

FinalizeMark(t) ==
  /\ pc[t] = "mark"
  /\ WriteFile(Marker, current[t])
  /\ Step(t, AfterMarker(current[t]))
  /\ UNCHANGED <<ledger, cut>>

(* The marker was there: the state is read afresh.                         *)
FinalizeMarked(t) ==
  /\ pc[t] = "marked"
  /\ IF record = NoRecord
       THEN Finish(t)
       ELSE /\ current' = [current EXCEPT ![t] = record.state]
            /\ Goto(t, AfterMarker(record.state))
            /\ UNCHANGED <<call, prior, stale>>
  /\ UNCHANGED <<disk, ledger, cut>>

FinalizeAnswer(t) ==
  /\ pc[t] = "answer"
  /\ StepIf(t, record # NoRecord, "accept")
  /\ UNCHANGED <<disk, ledger, cut>>

-----------------------------------------------------------------------------
(* put_artifact: no look at the state of the task; the files the service   *)
(* keeps for itself are refused.                                           *)

PutCheck(t) ==
  /\ pc[t] = "put"
  /\ StepIf(t, call[t].name # Marker /\ root, "put_write")
  /\ UNCHANGED <<disk, ledger, cut>>

PutWrite(t) ==
  /\ pc[t] = "put_write"
  /\ WriteFile(call[t].name, call[t].content)
  /\ Step(t, "put_read")
  /\ UNCHANGED <<ledger, cut>>

PutRead(t) ==
  /\ pc[t] = "put_read"
  /\ StepIf(t, root /\ Has(files, call[t].name), "accept")
  /\ UNCHANGED <<disk, ledger, cut>>

-----------------------------------------------------------------------------
(* archive_task: one rename from active/ to archived/.  A second archive   *)
(* of the id is refused, by the check or by the rename itself.             *)

ArchiveCheck(t) ==
  /\ pc[t] = "archive"
  /\ StepIf(t, root /\ archived = NoSnapshot, "rename")
  /\ UNCHANGED <<disk, ledger, cut>>

(* Faulty variant: the rename replaces an archive made meanwhile.          *)
ArchiveRenameOver(t) ==
  /\ pc[t] = "rename"
  /\ IF root
       THEN /\ archived' = [record |-> record, files |-> files]
            /\ root' = FALSE
            /\ record' = NoRecord
            /\ files' = NoFiles
            /\ Step(t, "accept")
       ELSE Finish(t) /\ UNCHANGED disk
  /\ UNCHANGED <<ledger, cut>>

ArchiveRename(t) ==
  /\ pc[t] = "rename"
  /\ IF root /\ archived = NoSnapshot
       THEN /\ archived' = [record |-> record, files |-> files]
            /\ root' = FALSE
            /\ record' = NoRecord
            /\ files' = NoFiles
            /\ Step(t, "accept")
       ELSE Finish(t) /\ UNCHANGED disk
  /\ UNCHANGED <<ledger, cut>>

-----------------------------------------------------------------------------
(* The ledger: one line for a request that went through, one for a create, *)
(* an update or a finalize that was refused.  Of the lines, only           *)
(* task_created, state_transitioned and task_archived tell a state.        *)

Tells(c) ==
  CASE c.op = "create"  -> "NEW"
    [] c.op = "update"  -> c.target
    [] c.op = "archive" -> None
    [] OTHER            -> told

Accept(t) ==
  /\ pc[t] = "accept"
  /\ told' = Tells(call[t])
  /\ IF call[t].op = "archive" THEN Step(t, "audit") ELSE Finish(t)
  /\ UNCHANGED <<disk, audited, cut>>

Audit(t) ==
  /\ pc[t] = "audit"
  /\ audited' = TRUE
  /\ Finish(t)
  /\ UNCHANGED <<disk, told, cut>>

(* The line of a refusal tells no state.                                   *)
Reject(t) ==
  /\ pc[t] = "reject"
  /\ Finish(t)
  /\ UNCHANGED <<disk, ledger, cut>>

-----------------------------------------------------------------------------

(* A request that may have moved the task and has not logged it yet.       *)
Unlogged(t) == pc[t] \in {"reread", "accept"}

(* The server dies and is started again: the disk is what is left.         *)
Crash ==
  /\ \E t \in Threads : pc[t] # "idle"
  /\ pc' = [t \in Threads |-> "idle"]
  /\ call' = [t \in Threads |-> NoCall]
  /\ prior' = [t \in Threads |-> None]
  /\ current' = [t \in Threads |-> None]
  /\ stale' = [t \in Threads |-> NoRecord]
  /\ cut' = (cut \/ \E t \in Threads : Unlogged(t))
  /\ UNCHANGED <<disk, ledger>>

Create(t) == CreateCheck(t) \/ CreatePublish(t)
Update(t) == ReadPrior(t) \/ ReadCurrent(t) \/ Gate(t) \/ WriteState(t)
FinalizeExperience(t) ==
  FinalizeCheck(t) \/ FinalizeMark(t) \/ FinalizeMarked(t) \/ FinalizeAnswer(t)
Put(t) == PutCheck(t) \/ PutWrite(t) \/ PutRead(t)
Archive(t) == ArchiveCheck(t) \/ ArchiveRename(t)
Log(t) == Accept(t) \/ Audit(t) \/ Reject(t)

Serve(t) ==
  \/ Begin(t) \/ Read(t) \/ Migrate(t) \/ Reread(t)
  \/ Create(t) \/ Update(t) \/ FinalizeExperience(t)
  \/ Put(t) \/ Archive(t) \/ Log(t)

Next == Crash \/ \E t \in Threads : Serve(t)

Spec == Init /\ [][Next]_vars

-----------------------------------------------------------------------------
(* Properties that hold whatever the interleaving.                         *)

(* Every record that update_state leaves names a legal edge, because the   *)
(* state it replaces is taken from the read that was validated.            *)
EdgeRecorded ==
  \/ record.previous = None
  \/ <<record.previous, record.state>> \in Edges

(* While the id has never been archived, a finalization marker has its     *)
(* experience packet beside it, and a written-back task has both, although *)
(* the checks of the packet and of the marker and the writes they guard    *)
(* are separate accesses of different requests.                            *)
FinalizedSound ==
  archived = NoSnapshot =>
    /\ Has(files, Marker) => Has(files, Packet)
    /\ record.state = "WRITTEN_BACK" => Has(files, Marker)

(* No write, create or refused archive ever drops an artifact or the state *)
(* record of a task: they disappear only together, by the rename of the    *)
(* directory, and the archive then holds exactly what was there.           *)
NothingLost ==
  [][\/ \E name \in Artifacts : Has(files, name) /\ ~Has(files', name)
     \/ record # NoRecord /\ record' = NoRecord
     => archived' = [record |-> record, files |-> files]]_vars

(* An archived task is final: a request that was under way when it was     *)
(* archived, or a second archive of the id, does not reach into it.        *)
ArchivedFinal == [][archived # NoSnapshot => archived' = archived]_vars

-----------------------------------------------------------------------------
(* Properties of a server that serves one request at a time, crashes       *)
(* included.                                                               *)

(* The store implements the atomic life of a task.                         *)
Lifecycle ==
  INSTANCE TaskLifecycle
    WITH state <- record.state,
         archived <- [state |-> archived.record.state,
                      files |-> archived.files]

RefinesLifecycle == Lifecycle!Spec

(* The state_transitioned line that a request is about to append is true:  *)
(* its target is the state of the record, and its previous_state, which    *)
(* the service read on its own before the store did, is the record's.      *)
LoggedIsTrue ==
  \A t \in Threads :
    pc[t] = "accept" /\ call[t].op = "update" =>
      record.state = call[t].target /\ record.previous = prior[t]

Quiescent == \A t \in Threads : pc[t] = "idle"

(* The transition a finalization makes has no state_transitioned line of   *)
(* its own, only writeback_finalized.                                      *)
LedgerAgrees ==
  \/ told = record.state
  \/ told = "RELEASED" /\ record.state = "WRITTEN_BACK"

(* Between requests the ledger tells the state of the task, unless a crash *)
(* has cut a request off between its write and its event.                  *)
LedgerComplete == Quiescent /\ ~cut => LedgerAgrees

-----------------------------------------------------------------------------
(* What the repository says and the code does not do.                      *)

(* "Implementation review is not approved or has unresolved conditions"    *)
(* refuses the transition: a task never becomes IMPL_APPROVED over an      *)
(* implementation review whose required fixes are outstanding.             *)
ConditionsResolved ==
  [][record.state = "IMPLEMENTED" /\ record'.state = "IMPL_APPROVED"
     => files["impl-review.json"] # "conditions_open"]_vars

(* "Validated state transitions": the state of a task changes along an     *)
(* edge of the state machine.                                              *)
LegalTransitions ==
  [][record # NoRecord /\ record' # NoRecord /\ record'.state # record.state
     => <<record.state, record'.state>> \in Edges]_vars
=============================================================================
