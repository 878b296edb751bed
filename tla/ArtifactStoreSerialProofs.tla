------------------------ MODULE ArtifactStoreSerialProofs ------------------------
(***************************************************************************)
(* Theorems about an artifact service that handles one request at a time,  *)
(* crashes included: it implements TaskLifecycle, and its ledger tells the *)
(* truth.  Any requests, and any tasks found on disk that have the brief   *)
(* create_task left in them.                                               *)
(***************************************************************************)
EXTENDS ArtifactStoreProofs

Brief == "task-brief.json"

Serial(t) ==
  /\ Threads = {t}
  /\ \A seed \in Seeds : seed.record # NoRecord => Has(seed.files, Brief)

-----------------------------------------------------------------------------
(* The inductive invariant.                                                *)

(* A directory is a task, with a record and a brief, or not there at all.  *)
Whole ==
  /\ root <=> record # NoRecord
  /\ record = NoRecord => files = NoFiles
  /\ record # NoRecord => Has(files, Brief)

(* What a thread at a label knows: c is its request, p and k the states it *)
(* has read for its log line and for its check, s a record to complete; r  *)
(* and fs are the record and the artifacts on disk.                        *)
Knows(label, c, p, k, s, r, fs) ==
  /\ label \in {"create", "publish"} => c.op = "create"
  /\ label \in {"archive", "rename"} => c.op = "archive"
  /\ label = "publish" => r = NoRecord
  /\ label \in {"migrate", "gate", "write", "mark", "put_write", "reread"} =>
       r # NoRecord
  /\ label = "migrate" => s = r /\ (c.op = "finalize" => k = r.state)
  /\ label \in {"check", "mark", "gate", "write"} => k = r.state
  /\ label \in {"current", "gate", "write"} /\ c.op = "update" => p = r.state
  /\ label = "write" => ValidTransition(fs, k, Target(c))
  /\ label = "mark" => Has(fs, Packet) /\ ~Has(fs, Marker)
  /\ label \in {"reread", "accept"} =>
       /\ c.op = "create" => r.state = "NEW"
       /\ c.op = "update" => r.state = c.target /\ r.previous = p
       /\ c.op = "archive" => r = NoRecord

(* The event of a request that has changed the state is still to come.     *)
Owes(label, c) ==
  label \in {"reread", "accept"} /\ c.op \in {"create", "update", "archive"}

Agrees(tale, r) == tale = r.state \/ (tale = "RELEASED" /\ r.state = "WRITTEN_BACK")

SerialInv(t) ==
  /\ Whole
  /\ Knows(pc[t], call[t], prior[t], current[t], stale[t], record, files)
  /\ ~cut /\ ~Owes(pc[t], call[t]) => Agrees(told, record)

Inv(t) == TypeInv /\ SerialInv(t)

-----------------------------------------------------------------------------
(* The steps that preserve it.                                             *)

LEMMA OneThread ==
  ASSUME NEW t, Serial(t), TypeInv
  PROVE  /\ t \in Threads /\ \A u \in Threads : u = t
         /\ call[t] \in AllCalls \cup {NoCall} /\ stale[t] \in Records \cup {NoRecord}
         /\ prior[t] \in States \cup {None} /\ current[t] \in States \cup {None}
         /\ Placed(pc[t], call[t], current[t], stale[t])
         /\ record \in Records \cup {NoRecord} /\ IsFiles(files)
         /\ \A label : Goto(t, label) => pc'[t] = label
         /\ \A label : Step(t, label) =>
              /\ pc'[t] = label /\ call'[t] = call[t] /\ prior'[t] = prior[t]
              /\ current'[t] = current[t] /\ stale'[t] = stale[t]
         /\ Finish(t) => pc'[t] = "idle"
BY DEF Serial, TypeInv, DiskOK, LocalsOK, Step, Goto, Finish, locals

LEMMA Still ==
  ASSUME NEW t, Serial(t), Inv(t), UNCHANGED <<disk, ledger, cut>>,
         Knows(pc'[t], call'[t], prior'[t], current'[t], stale'[t], record, files),
         Owes(pc[t], call[t]) => Owes(pc'[t], call'[t])
  PROVE  SerialInv(t)'
BY DEF Inv, SerialInv, Whole, disk, ledger, Agrees

LEMMA IdleKnows ==
  ASSUME NEW label \in {"idle", "reject", "audit", "answer", "marked"},
         NEW c, NEW p, NEW k, NEW s, NEW r, NEW fs
  PROVE  Knows(label, c, p, k, s, r, fs) /\ ~Owes(label, c)
BY DEF Knows, Owes

LEMMA BeginSerial ==
  ASSUME NEW t, Serial(t), Inv(t), Begin(t)
  PROVE  SerialInv(t)'
<1>1. PICK c \in Calls : call' = [call EXCEPT ![t] = c] /\ Goto(t, FirstAccess(c.op))
  BY DEF Begin
<1>2. call'[t] = c /\ pc'[t] = FirstAccess(c.op)
  BY <1>1, OneThread DEF Inv, TypeInv, LocalsOK
<1>3. c.op \in Ops
  BY CallsAssumption DEF AllCalls, Ops
<1>4. FirstAccess(c.op) \in {"read", "create", "put", "archive"}
  BY <1>3 DEF FirstAccess, Ops
<1>5. Knows(FirstAccess(c.op), c, prior'[t], current'[t], stale'[t], record, files)
  BY <1>3 DEF Knows, FirstAccess, Ops
<1>6. UNCHANGED <<disk, ledger, cut>> /\ ~Owes(pc[t], call[t])
  BY DEF Begin, Owes
<1> QED BY <1>2, <1>5, <1>6, Still

LEMMA CreateSerial ==
  ASSUME NEW t, Serial(t), Inv(t), Create(t) \/ Reread(t)
  PROVE  SerialInv(t)'
<1>1. /\ Knows(pc[t], call[t], prior[t], current[t], stale[t], record, files)
      /\ Whole
  BY DEF Inv, SerialInv
<1>2. CASE CreateCheck(t)
  <2>1. pc[t] = "create" /\ Step(t, IF root THEN "reject" ELSE "publish")
        /\ UNCHANGED <<disk, ledger, cut>>
    BY <1>2 DEF CreateCheck
  <2>2. Knows(pc'[t], call'[t], prior'[t], current'[t], stale'[t], record, files)
    BY <1>1, <2>1, OneThread DEF Knows, Whole, Inv
  <2> QED BY <2>1, <2>2, Still DEF Owes
<1>3. CASE CreatePublish(t)
  <2>1. /\ pc[t] = "publish" /\ ~root /\ call[t].op = "create"
        /\ root' = TRUE /\ files' = FreshFiles /\ Step(t, "reread")
        /\ record' = [state |-> "NEW", previous |-> None, legacy |-> FALSE]
        /\ UNCHANGED <<ledger, cut>>
    BY <1>1, <1>3 DEF CreatePublish, Knows, Whole
  <2>2. record' # NoRecord /\ record'.state = "NEW"
    BY <2>1, RecordMade, StateNames
  <2>3. Whole'
    BY <2>1, <2>2, EmptyFiles, ArtifactNames
       DEF Whole, FreshFiles, NoFiles, Has, Brief, Missing
  <2>4. pc'[t] = "reread" /\ call'[t].op = "create"
    BY <2>1, OneThread DEF Inv
  <2>5. Knows(pc'[t], call'[t], prior'[t], current'[t], stale'[t], record', files')
    BY <2>2, <2>4 DEF Knows
  <2> QED BY <2>3, <2>4, <2>5 DEF SerialInv, Owes
<1>4. CASE Reread(t)
  <2>1. pc[t] = "reread" /\ Readable /\ UNCHANGED <<disk, ledger, cut>>
    BY <1>1, <1>4 DEF Reread, Knows, Whole, Readable, Brief
  <2>2. Step(t, IF call[t].op = "finalize" THEN "answer" ELSE "accept")
    BY <1>4, <2>1 DEF Reread, StepIf
  <2>3. /\ pc'[t] = IF call[t].op = "finalize" THEN "answer" ELSE "accept"
        /\ call'[t] = call[t] /\ prior'[t] = prior[t]
    BY <2>2, OneThread DEF Inv
  <2>4. Knows(pc'[t], call'[t], prior'[t], current'[t], stale'[t], record, files)
    BY <1>1, <2>1, <2>3 DEF Knows
  <2> QED BY <2>1, <2>3, <2>4, Still DEF Owes
<1> QED BY <1>2, <1>3, <1>4 DEF Create

LEMMA ReadSerial ==
  ASSUME NEW t, Serial(t), Inv(t), Read(t)
  PROVE  SerialInv(t)'
<1> DEFINE op == call[t].op
<1>1. /\ pc[t] = "read" /\ op \in {"get", "update", "finalize"}
      /\ UNCHANGED <<disk, ledger, cut>> /\ ~Owes(pc[t], call[t])
  BY OneThread DEF Read, Inv, Placed, Owes
<1>2. CASE Finish(t)
  BY <1>1, <1>2, OneThread, IdleKnows, Still DEF Inv
<1>3. CASE ~Finish(t)
  <2>1. /\ record # NoRecord /\ (op = "get" => record.legacy)
        /\ Goto(t, IF record.legacy THEN "migrate" ELSE AfterRead(op))
        /\ stale' = [stale EXCEPT ![t] = IF record.legacy THEN record ELSE NoRecord]
        /\ current' = [current EXCEPT ![t] = IF op = "finalize" THEN record.state ELSE @]
        /\ UNCHANGED <<call, prior>>
    BY <1>3 DEF Read
  <2>2. /\ pc'[t] = IF record.legacy THEN "migrate" ELSE AfterRead(op)
        /\ stale'[t] = IF record.legacy THEN record ELSE NoRecord
        /\ op = "finalize" => current'[t] = record.state
        /\ call'[t] = call[t]
    BY <2>1, OneThread DEF Inv, TypeInv, LocalsOK
  <2>3. Knows(pc'[t], call'[t], prior'[t], current'[t], stale'[t], record, files)
    <3>1. CASE record.legacy
      BY <2>1, <2>2, <3>1 DEF Knows
    <3>2. CASE ~record.legacy
      BY <1>1, <2>1, <2>2, <3>2 DEF Knows, AfterRead
    <3> QED BY <3>1, <3>2
  <2> QED BY <1>1, <2>3, Still
<1> QED BY <1>2, <1>3

LEMMA MigrateSerial ==
  ASSUME NEW t, Serial(t), Inv(t), Migrate(t)
  PROVE  SerialInv(t)'
<1> DEFINE op == call[t].op
<1>1. /\ pc[t] = "migrate" /\ op \in {"get", "update", "finalize"}
      /\ stale[t] \in Records
      /\ UNCHANGED <<files, archived, ledger, cut>> /\ root' = TRUE
      /\ record' = [stale[t] EXCEPT !.legacy = FALSE]
  BY OneThread DEF Migrate, WriteRecord, Inv, Placed
<1>2. /\ record # NoRecord /\ stale[t] = record
      /\ op = "finalize" => current[t] = record.state
      /\ Whole
  BY <1>1 DEF Inv, SerialInv, Knows
<1>3. record' # NoRecord /\ record'.state = record.state
  BY <1>1, <1>2, RecordMigrated
<1>4. Whole'
  BY <1>1, <1>2, <1>3 DEF Whole
<1>5. ~cut => Agrees(told, record)
  BY <1>1 DEF Inv, SerialInv, Owes
<1>6. ~cut' => Agrees(told', record')
  BY <1>1, <1>3, <1>5 DEF Agrees, ledger
<1>7. CASE op = "get"
  <2>1. pc'[t] = "idle"
    BY <1>7, OneThread DEF Migrate, Inv
  <2> QED BY <1>4, <1>6, <2>1, IdleKnows DEF SerialInv
<1>8. CASE op # "get"
  <2>1. Goto(t, AfterRead(op)) /\ UNCHANGED <<call, prior, current>>
    BY <1>8 DEF Migrate
  <2>2. pc'[t] \in {"prior", "check"} /\ (pc'[t] = "check" => op = "finalize")
    BY <1>1, <1>8, <2>1, OneThread DEF Inv, AfterRead
  <2>3. Knows(pc'[t], call'[t], prior'[t], current'[t], stale'[t], record', files')
    BY <1>2, <1>3, <2>1, <2>2 DEF Knows
  <2> QED BY <1>4, <1>6, <2>3 DEF SerialInv
<1> QED BY <1>7, <1>8

LEMMA UpdateSerial ==
  ASSUME NEW t, Serial(t), Inv(t), ReadPrior(t) \/ ReadCurrent(t) \/ Gate(t)
  PROVE  SerialInv(t)'
<1>1. /\ Knows(pc[t], call[t], prior[t], current[t], stale[t], record, files)
      /\ Placed(pc[t], call[t], current[t], stale[t])
  BY OneThread DEF Inv, SerialInv
<1>2. UNCHANGED <<disk, ledger, cut>> /\ ~Owes(pc[t], call[t])
  BY DEF ReadPrior, ReadCurrent, Gate, Owes
<1>3. CASE Finish(t)
  BY <1>2, <1>3, OneThread, IdleKnows, Still DEF Inv
<1>4. CASE ReadPrior(t) /\ ~Finish(t)
  <2>1. pc'[t] = "current" /\ prior'[t] = record.state
    BY <1>4, OneThread DEF ReadPrior, Inv, TypeInv, LocalsOK
  <2>2. Knows(pc'[t], call'[t], prior'[t], current'[t], stale'[t], record, files)
    BY <2>1 DEF Knows
  <2> QED BY <1>2, <2>2, Still
<1>5. CASE ReadCurrent(t) /\ ~Finish(t)
  <2>1. /\ pc[t] = "current" /\ record # NoRecord /\ pc'[t] \in {"reject", "gate"}
        /\ current'[t] = record.state /\ UNCHANGED <<call, prior, stale>>
    BY <1>5, OneThread DEF ReadCurrent, Inv, TypeInv, LocalsOK
  <2>2. Knows(pc'[t], call'[t], prior'[t], current'[t], stale'[t], record, files)
    BY <1>1, <2>1 DEF Knows
  <2> QED BY <1>2, <2>2, Still
<1>6. CASE Gate(t)
  <2>1. /\ pc[t] = "gate" /\ call'[t] = call[t] /\ prior'[t] = prior[t]
        /\ current'[t] = current[t]
        /\ pc'[t] = IF ValidTransition(files, current[t], Target(call[t]))
                      THEN "write" ELSE "reject"
    BY <1>6, OneThread DEF Gate, Inv
  <2>2. Knows(pc'[t], call'[t], prior'[t], current'[t], stale'[t], record, files)
    BY <1>1, <2>1 DEF Knows
  <2> QED BY <1>2, <2>2, Still
<1> QED BY <1>3, <1>4, <1>5, <1>6

(* The one way to become WRITTEN_BACK.                                     *)
LEMMA WrittenBackFrom ==
  ASSUME NEW k, <<k, "WRITTEN_BACK">> \in Edges
  PROVE  k = "RELEASED"
BY DEF Edges, NextState, Rollbacks, Rework

LEMMA WriteSerial ==
  ASSUME NEW t, Serial(t), Inv(t), WriteState(t)
  PROVE  SerialInv(t)'
<1> DEFINE c == call[t]
           target == Target(c)
<1>1. /\ pc[t] = "write" /\ c.op \in {"update", "finalize"} /\ target \in States
      /\ current[t] \in States
      /\ UNCHANGED <<files, archived, ledger, cut>> /\ root' = TRUE
      /\ record' = [state |-> target, previous |-> current[t], legacy |-> FALSE]
      /\ Step(t, "reread")
  BY OneThread, CallFields DEF WriteState, WriteRecord, Inv, Placed
<1>2. /\ Whole /\ record # NoRecord /\ current[t] = record.state
      /\ ValidTransition(files, current[t], target)
      /\ c.op = "update" => prior[t] = record.state
      /\ ~cut => Agrees(told, record)
  BY <1>1 DEF Inv, SerialInv, Knows, Owes
<1>3. record'.state = target /\ record'.previous = current[t] /\ record' # NoRecord
  BY <1>1, RecordMade
<1>4. /\ pc'[t] = "reread" /\ call'[t] = c /\ prior'[t] = prior[t]
  BY <1>1, OneThread DEF Inv
<1>5. Whole'
  BY <1>1, <1>2, <1>3 DEF Whole
<1>6. Knows(pc'[t], call'[t], prior'[t], current'[t], stale'[t], record', files')
  BY <1>1, <1>2, <1>3, <1>4 DEF Knows, Target
<1>7. ~cut' /\ ~Owes(pc'[t], call'[t]) => Agrees(told', record')
  <2> SUFFICES ASSUME ~cut, ~Owes("reread", c) PROVE Agrees(told, record')
    BY <1>1, <1>4 DEF ledger
  <2>1. target = "WRITTEN_BACK"
    BY <1>1 DEF Owes, Target
  <2>2. record.state = "RELEASED"
    BY <1>2, <2>1, WrittenBackFrom DEF ValidTransition
  <2>3. told = "RELEASED"
    BY <1>2, <2>2 DEF Agrees
  <2> QED BY <1>3, <2>1, <2>3 DEF Agrees
<1> QED BY <1>5, <1>6, <1>7 DEF SerialInv

LEMMA FinalizeSerial ==
  ASSUME NEW t, Serial(t), Inv(t), FinalizeExperience(t)
  PROVE  SerialInv(t)'
<1> DEFINE c == call[t]
<1>1. /\ Knows(pc[t], c, prior[t], current[t], stale[t], record, files)
      /\ Whole /\ Placed(pc[t], c, current[t], stale[t]) /\ IsFiles(files)
  BY OneThread DEF Inv, SerialInv
<1>2. c.op = "finalize" /\ ~Owes(pc[t], c)
  BY <1>1 DEF FinalizeExperience, FinalizeCheck, FinalizeMark,
              FinalizeMarked, FinalizeAnswer, Placed, Owes
<1>3. CASE FinalizeCheck(t)
  <2>1. /\ pc[t] = "check" /\ pc'[t] \in {"marked", "mark", "reject"}
        /\ pc'[t] = "mark" => Has(files, Packet) /\ ~Has(files, Marker)
        /\ call'[t] = c /\ current'[t] = current[t]
        /\ UNCHANGED <<disk, ledger, cut>>
    BY <1>3, OneThread DEF FinalizeCheck, Inv
  <2>2. current[t] \in States /\ record # NoRecord
    <3>1. current[t] = record.state /\ current[t] \in States
      BY <1>1, <2>1 DEF Knows, Placed
    <3> QED BY <3>1, StateNames DEF NoRecord
  <2>3. Knows(pc'[t], call'[t], prior'[t], current'[t], stale'[t], record, files)
    BY <1>1, <1>2, <2>1, <2>2 DEF Knows
  <2> QED BY <1>2, <2>1, <2>3, Still
<1>4. CASE FinalizeMark(t)
  <2>1. /\ pc[t] = "mark" /\ root' = TRUE /\ UNCHANGED <<record, archived, ledger, cut>>
        /\ files' = [files EXCEPT ![Marker] = current[t]]
        /\ Step(t, AfterMarker(current[t])) /\ record # NoRecord
        /\ current[t] \in ContentsOf(Marker)
    BY <1>1, <1>4, ContentTypes, ArtifactNames
       DEF FinalizeMark, WriteFile, Knows, Placed
  <2>2. \A name \in Artifacts : Has(files, name) => Has(files', name)
    BY <1>1, <2>1, FilePut, ArtifactNames
  <2>3. Whole'
    BY <1>1, <2>1, <2>2, ArtifactNames DEF Whole, Brief
  <2>4. pc'[t] \in {"current", "answer"} /\ call'[t] = c
    BY <2>1, OneThread DEF Inv, AfterMarker
  <2>5. Knows(pc'[t], call'[t], prior'[t], current'[t], stale'[t], record', files')
    BY <1>2, <2>4 DEF Knows
  <2>6. ~cut' => Agrees(told', record')
    BY <1>2, <2>1 DEF Inv, SerialInv, Agrees, ledger
  <2> QED BY <2>3, <2>5, <2>6 DEF SerialInv
<1>5. CASE FinalizeMarked(t) /\ ~Finish(t)
  <2>1. /\ pc'[t] \in {"current", "answer"} /\ call' = call
        /\ UNCHANGED <<disk, ledger, cut>>
    BY <1>5, OneThread DEF FinalizeMarked, AfterMarker, Inv
  <2>2. Knows(pc'[t], call'[t], prior'[t], current'[t], stale'[t], record, files)
    BY <1>2, <2>1 DEF Knows
  <2> QED BY <1>2, <2>1, <2>2, Still
<1>6. CASE FinalizeAnswer(t) /\ ~Finish(t)
  <2>1. /\ pc'[t] = "accept" /\ call'[t] = c /\ UNCHANGED <<disk, ledger, cut>>
    BY <1>6, OneThread DEF FinalizeAnswer, StepIf, Inv
  <2>2. Knows(pc'[t], call'[t], prior'[t], current'[t], stale'[t], record, files)
    BY <1>2, <2>1 DEF Knows
  <2> QED BY <1>2, <2>1, <2>2, Still
<1>7. CASE (FinalizeMarked(t) \/ FinalizeAnswer(t)) /\ Finish(t)
  <2>1. UNCHANGED <<disk, ledger, cut>>
    BY <1>7 DEF FinalizeMarked, FinalizeAnswer
  <2> QED BY <1>2, <1>7, <2>1, OneThread, IdleKnows, Still DEF Inv
<1> QED BY <1>3, <1>4, <1>5, <1>6, <1>7 DEF FinalizeExperience

LEMMA PutSerial ==
  ASSUME NEW t, Serial(t), Inv(t), Put(t)
  PROVE  SerialInv(t)'
<1> DEFINE c == call[t]
<1>1. /\ Whole /\ IsFiles(files) /\ c.op = "put" /\ c \in AllCalls \cup {NoCall}
      /\ Knows(pc[t], c, prior[t], current[t], stale[t], record, files)
  BY OneThread
     DEF Inv, SerialInv, Put, PutCheck, PutWrite, PutRead, Placed
<1>2. ~cut => Agrees(told, record)
  BY <1>1 DEF Inv, SerialInv, Owes
<1>3. CASE PutWrite(t)
  <2>1. /\ record # NoRecord /\ root' = TRUE /\ Step(t, "put_read")
        /\ UNCHANGED <<record, archived, ledger, cut>>
        /\ files' = [files EXCEPT ![c.name] = c.content]
    BY <1>1, <1>3 DEF PutWrite, WriteFile, Knows
  <2>2. \A name \in Artifacts : Has(files, name) => Has(files', name)
    <3>1. c.name \in Artifacts /\ c.content \in ContentsOf(c.name)
      BY <1>1, CallFields
    <3> HIDE DEF c
    <3> QED BY <1>1, <2>1, <3>1, FilePut
  <2>3. Whole'
    BY <1>1, <2>1, <2>2, ArtifactNames DEF Whole, Brief
  <2>4. pc'[t] = "put_read"
    BY <2>1, OneThread DEF Inv
  <2> QED BY <1>2, <2>1, <2>3, <2>4 DEF SerialInv, Knows, Agrees, ledger
<1>4. CASE PutCheck(t) \/ PutRead(t)
  <2>1. UNCHANGED <<disk, ledger, cut>> /\ ~Owes(pc[t], c)
    BY <1>4 DEF PutCheck, PutRead, Owes
  <2>2. CASE Finish(t)
    BY <2>1, <2>2, OneThread, IdleKnows, Still DEF Inv
  <2>3. CASE ~Finish(t)
    <3>1. /\ pc'[t] \in {"put_write", "accept"} /\ call'[t] = c
          /\ pc'[t] = "put_write" => root
      BY <1>4, <2>3, OneThread DEF PutCheck, PutRead, StepIf, Inv
    <3>2. Knows(pc'[t], call'[t], prior'[t], current'[t], stale'[t], record, files)
      BY <1>1, <3>1 DEF Knows, Whole
    <3> QED BY <2>1, <3>2, Still
  <2> QED BY <2>2, <2>3
<1> QED BY <1>3, <1>4 DEF Put

LEMMA ArchiveSerial ==
  ASSUME NEW t, Serial(t), Inv(t), Archive(t)
  PROVE  SerialInv(t)'
<1>1. Knows(pc[t], call[t], prior[t], current[t], stale[t], record, files)
  BY DEF Inv, SerialInv
<1>2. pc[t] \in {"archive", "rename"} /\ call[t].op = "archive"
  BY <1>1 DEF Archive, ArchiveCheck, ArchiveRename, Knows
<1>3. CASE Finish(t)
  <2>1. UNCHANGED <<disk, ledger, cut>>
    <3>1. pc'[t] = "idle"
      BY <1>3, OneThread DEF Inv
    <3> QED BY <3>1, OneThread DEF Archive, ArchiveCheck, ArchiveRename, Inv
  <2> QED BY <1>2, <1>3, <2>1, OneThread, IdleKnows, Still DEF Inv, Owes
<1>4. CASE ArchiveCheck(t) /\ ~Finish(t)
  <2>1. /\ pc'[t] = "rename" /\ call'[t] = call[t] /\ UNCHANGED <<disk, ledger, cut>>
    BY <1>4, OneThread DEF ArchiveCheck, StepIf, Inv
  <2>2. Knows(pc'[t], call'[t], prior'[t], current'[t], stale'[t], record, files)
    BY <1>2, <2>1 DEF Knows
  <2> QED BY <1>2, <2>1, <2>2, Still DEF Owes
<1>5. CASE ArchiveRename(t) /\ ~Finish(t)
  <2>1. /\ root' = FALSE /\ record' = NoRecord /\ files' = NoFiles
        /\ pc'[t] = "accept" /\ call'[t] = call[t]
    BY <1>5, OneThread DEF ArchiveRename, Inv
  <2>2. Whole'
    BY <2>1 DEF Whole
  <2>3. Knows(pc'[t], call'[t], prior'[t], current'[t], stale'[t], record', files')
    BY <1>2, <2>1 DEF Knows
  <2> QED BY <1>2, <2>1, <2>2, <2>3 DEF SerialInv, Owes
<1> QED BY <1>3, <1>4, <1>5 DEF Archive

LEMMA LogSerial ==
  ASSUME NEW t, Serial(t), Inv(t), Log(t)
  PROVE  SerialInv(t)'
<1> DEFINE c == call[t]
<1>1. /\ Whole
      /\ ~cut /\ ~Owes(pc[t], c) => Agrees(told, record)
      /\ Knows(pc[t], c, prior[t], current[t], stale[t], record, files)
      /\ UNCHANGED <<disk, cut>>
  BY DEF Inv, SerialInv, Log, Accept, Audit, Reject, ledger
<1>2. Whole'
  BY <1>1 DEF Whole, disk
<1>3. pc'[t] \in {"idle", "audit"}
  BY OneThread DEF Log, Accept, Audit, Reject, Inv
<1>4. Knows(pc'[t], call'[t], prior'[t], current'[t], stale'[t], record', files')
      /\ ~Owes(pc'[t], call'[t])
  BY <1>3, IdleKnows
<1>5. ~cut => Agrees(told', record)
  <2>1. CASE Accept(t)
    <3>1. pc[t] = "accept" /\ told' = Tells(c)
      BY <2>1 DEF Accept
    <3>2. CASE Owes("accept", c)
      <4>1. told' = record.state
        BY <1>1, <3>1, <3>2 DEF Owes, Knows, Tells, NoRecord
      <4> QED BY <4>1 DEF Agrees
    <3>3. CASE ~Owes("accept", c)
      <4>1. told' = told
        BY <3>1, <3>3 DEF Owes, Tells
      <4> QED BY <1>1, <3>1, <3>3, <4>1
    <3> QED BY <3>2, <3>3
  <2>2. CASE Audit(t) \/ Reject(t)
    BY <1>1, <2>2 DEF Audit, Reject, Owes, ledger
  <2> QED BY <2>1, <2>2 DEF Log
<1>6. ~cut' => Agrees(told', record')
  BY <1>1, <1>5 DEF disk
<1> QED BY <1>2, <1>4, <1>6 DEF SerialInv

LEMMA CrashSerial ==
  ASSUME NEW t, Serial(t), Inv(t), Crash
  PROVE  SerialInv(t)'
<1>1. /\ pc'[t] = "idle" /\ UNCHANGED <<disk, ledger>>
      /\ ~cut' => ~cut /\ pc[t] \notin {"reread", "accept"}
  BY DEF Crash, Serial, Unlogged
<1>2. Whole'
  BY <1>1 DEF Inv, SerialInv, Whole, disk
<1>3. ~cut' => Agrees(told', record')
  BY <1>1 DEF Inv, SerialInv, Owes, disk, ledger, Agrees
<1> QED BY <1>1, <1>2, <1>3, IdleKnows DEF SerialInv

LEMMA InitSerial ==
  ASSUME NEW t, Serial(t), Init
  PROVE  Inv(t)
<1>1. PICK seed \in Seeds : /\ record = seed.record /\ files = seed.files
                            /\ root = (seed.record # NoRecord)
                            /\ told = seed.record.state
  BY DEF Init
<1>2. Whole
  BY <1>1, SeedsAssumption DEF Serial, IsSeed, Whole
<1>3. pc[t] = "idle" /\ told = record.state
  BY <1>1 DEF Init, Serial
<1>4. SerialInv(t)
  BY <1>2, <1>3, IdleKnows DEF SerialInv, Agrees
<1> QED BY <1>4, InitType DEF Inv

LEMMA SerialStep ==
  ASSUME NEW t, Serial(t), Inv(t), [Next]_vars
  PROVE  Inv(t)'
<1>1. TypeInv'
  BY TypeStep DEF Inv
<1>2. SerialInv(t)'
  <2>1. CASE Crash
    BY <2>1, CrashSerial
  <2>2. CASE UNCHANGED vars
    BY <2>2 DEF vars, disk, ledger, locals, Inv, SerialInv, Whole, Agrees
  <2>3. CASE Serve(t)
    BY <2>3, BeginSerial, CreateSerial, ReadSerial, MigrateSerial, UpdateSerial,
       WriteSerial, FinalizeSerial, PutSerial, ArchiveSerial, LogSerial
       DEF Serve, Update
  <2> QED BY <2>1, <2>2, <2>3, OneThread DEF Next, Inv
<1> QED BY <1>1, <1>2 DEF Inv

LEMMA SerialAlways ==
  ASSUME NEW t, Serial(t)
  PROVE  Spec => []Inv(t)
<1>1. Init => Inv(t)
  BY InitSerial
<1>2. Inv(t) /\ [Next]_vars => Inv(t)'
  BY SerialStep
<1> QED BY <1>1, <1>2, PTL DEF Spec

-----------------------------------------------------------------------------
(* The properties.                                                         *)

(* The state_transitioned line an update is about to append is true: the   *)
(* task is in its target, and came from the previous_state that the        *)
(* service read on its own.                                                *)
THEOREM LoggedAlwaysTrue ==
  ASSUME NEW t, Serial(t)
  PROVE  Spec => []LoggedIsTrue
<1>1. Inv(t) => LoggedIsTrue
  BY DEF Inv, SerialInv, Knows, LoggedIsTrue, Serial
<1> QED BY <1>1, SerialAlways, PTL

(* Between requests the ledger tells the state the task is in, unless a    *)
(* crash came between the change of a state and its event.                 *)
THEOREM LedgerAlwaysComplete ==
  ASSUME NEW t, Serial(t)
  PROVE  Spec => []LedgerComplete
<1>1. Inv(t) => LedgerComplete
  BY DEF Inv, SerialInv, Owes, Agrees, LedgerComplete, LedgerAgrees,
         Quiescent, Serial
<1> QED BY <1>1, SerialAlways, PTL

-----------------------------------------------------------------------------
(* The refinement of TaskLifecycle.                                        *)

(* The two modules extend the same TaskStateMachine.                       *)
LEMMA SameMachine ==
  /\ Lifecycle!None = None /\ Lifecycle!States = States
  /\ Lifecycle!Marker = Marker /\ Lifecycle!Packet = Packet
  /\ Lifecycle!MarkerStates = MarkerStates
  /\ Lifecycle!Artifacts = Artifacts /\ Lifecycle!Contents = Contents
  /\ Lifecycle!NoFiles = NoFiles /\ Lifecycle!FreshFiles = FreshFiles
  /\ \A name : Lifecycle!ContentsOf(name) = ContentsOf(name)
  /\ \A fs, name : Lifecycle!Has(fs, name) <=> Has(fs, name)
  /\ \A fs : Lifecycle!IsFiles(fs) <=> IsFiles(fs)
  /\ \A fs, k, target :
       Lifecycle!ValidTransition(fs, k, target) <=> ValidTransition(fs, k, target)
<1>1. /\ Lifecycle!None = None /\ Lifecycle!States = States
      /\ Lifecycle!Marker = Marker /\ Lifecycle!Packet = Packet
      /\ Lifecycle!Report = Report /\ Lifecycle!Reviews = Reviews
      /\ Lifecycle!Missing = Missing
      /\ Lifecycle!MarkerStates = MarkerStates
      /\ Lifecycle!Verdicts = Verdicts /\ Lifecycle!Outcomes = Outcomes
  BY DEF Lifecycle!None, None, Lifecycle!States, States, Lifecycle!Rank, Rank,
         Lifecycle!Marker, Marker, Lifecycle!Packet, Packet, Lifecycle!Report,
         Report, Lifecycle!Reviews, Reviews, Lifecycle!Missing, Missing,
         Lifecycle!MarkerStates, MarkerStates, Lifecycle!Verdicts, Verdicts,
         Lifecycle!Outcomes, Outcomes
<1>2. Lifecycle!Artifacts = Artifacts /\ Lifecycle!Contents = Contents
  BY <1>1 DEF Lifecycle!Artifacts, Artifacts, Lifecycle!Plain, Plain,
              Lifecycle!Contents, Contents
<1>3. Lifecycle!NoFiles = NoFiles /\ Lifecycle!FreshFiles = FreshFiles
  BY <1>1, <1>2
     DEF Lifecycle!NoFiles, NoFiles, Lifecycle!FreshFiles, FreshFiles
<1>4. \A name : Lifecycle!ContentsOf(name) = ContentsOf(name)
  BY <1>1 DEF Lifecycle!ContentsOf, ContentsOf
<1>5. \A fs, name : Lifecycle!Has(fs, name) <=> Has(fs, name)
  BY <1>1 DEF Lifecycle!Has, Has
<1>6. \A fs : Lifecycle!IsFiles(fs) <=> IsFiles(fs)
  BY <1>1, <1>2, <1>4 DEF Lifecycle!IsFiles, IsFiles
<1>7. Lifecycle!Edges = Edges
  BY DEF Lifecycle!Edges, Edges, Lifecycle!NextState, NextState,
         Lifecycle!Rollbacks, Rollbacks, Lifecycle!Rework, Rework
<1>8. \A fs, target : Lifecycle!GateOpen(fs, target) <=> GateOpen(fs, target)
  <2>1. \A fs, json, markdown :
          Lifecycle!ReviewGate(fs, json, markdown) <=> ReviewGate(fs, json, markdown)
    BY <1>5 DEF Lifecycle!ReviewGate, ReviewGate, Lifecycle!DemandsSeen, DemandsSeen
  <2> QED BY <1>1, <1>5, <2>1 DEF Lifecycle!GateOpen, GateOpen
<1> QED BY <1>1, <1>2, <1>3, <1>4, <1>5, <1>6, <1>7, <1>8
     DEF Lifecycle!ValidTransition, ValidTransition

LEMMA MadeAtOnce ==
  ASSUME NEW t, Serial(t), Inv(t), CreatePublish(t) \/ ArchiveRename(t),
         ~UNCHANGED disk
  PROVE  Lifecycle!Next
<1>1. CASE CreatePublish(t)
  <2>1. record = NoRecord
    BY <1>1 DEF CreatePublish, Inv, SerialInv, Knows
  <2> QED BY <1>1, <2>1, SameMachine
       DEF CreatePublish, NoRecord, Lifecycle!Next, Lifecycle!Create
<1>2. CASE ArchiveRename(t)
  <2>1. /\ root /\ archived = NoSnapshot
        /\ archived' = [record |-> record, files |-> files]
        /\ record' = NoRecord /\ files' = NoFiles
    BY <1>2 DEF ArchiveRename
  <2>2. record.state # None
    BY <2>1, OneThread, RecordFields DEF Inv, SerialInv, Whole
  <2>3. archived.record.state = None /\ archived.files = NoFiles
    BY <2>1 DEF NoSnapshot, NoRecord
  <2>4. /\ record'.state = None
        /\ archived'.record.state = record.state /\ archived'.files = files
    BY <2>1 DEF NoRecord
  <2> QED BY <2>1, <2>2, <2>3, <2>4, SameMachine
       DEF Lifecycle!Next, Lifecycle!Archive, Lifecycle!NoSnapshot
<1> QED BY <1>1, <1>2

LEMMA RecordMoves ==
  ASSUME NEW t, Serial(t), Inv(t), Migrate(t) \/ WriteState(t)
  PROVE  /\ UNCHANGED <<files, archived>>
         /\ record'.state = record.state \/ Lifecycle!Next
<1>1. UNCHANGED <<files, archived>>
  BY DEF Migrate, WriteState, WriteRecord
<1>2. CASE Migrate(t)
  <2>1. stale[t] \in Records /\ stale[t] = record
    BY <1>2, OneThread DEF Migrate, Inv, SerialInv, Knows, Placed
  <2> QED BY <1>1, <1>2, <2>1, RecordMigrated DEF Migrate, WriteRecord
<1>3. CASE WriteState(t)
  <2> DEFINE target == Target(call[t])
  <2>1. /\ current[t] = record.state /\ ValidTransition(files, current[t], target)
        /\ target \in States
    BY <1>3, OneThread, CallFields DEF WriteState, Inv, SerialInv, Knows, Placed
  <2>2. record'.state = target
    BY <1>3 DEF WriteState, WriteRecord
  <2> QED BY <1>1, <2>1, <2>2, SameMachine DEF Lifecycle!Next, Lifecycle!Move
<1> QED BY <1>1, <1>2, <1>3

LEMMA FilesMove ==
  ASSUME NEW t, Serial(t), Inv(t), FinalizeMark(t) \/ PutWrite(t)
  PROVE  Lifecycle!Next
<1>1. /\ Knows(pc[t], call[t], prior[t], current[t], stale[t], record, files)
      /\ Placed(pc[t], call[t], current[t], stale[t])
      /\ call[t] \in AllCalls \cup {NoCall}
  BY OneThread DEF Inv, SerialInv
<1>2. CASE FinalizeMark(t)
  <2>1. /\ record.state \in MarkerStates /\ current[t] = record.state
        /\ Has(files, Packet) /\ ~Has(files, Marker)
    BY <1>1, <1>2 DEF FinalizeMark, Knows, Placed
  <2> QED BY <1>2, <2>1, SameMachine
       DEF FinalizeMark, WriteFile, Lifecycle!Next, Lifecycle!Finalize
<1>3. CASE PutWrite(t)
  <2>1. /\ call[t].op = "put" /\ call[t].name # Marker /\ record # NoRecord
    BY <1>1, <1>3 DEF PutWrite, Knows, Placed
  <2>2. call[t].name \in Artifacts /\ call[t].content \in ContentsOf(call[t].name)
    BY <1>1, <2>1, CallFields
  <2>3. record.state # None
    BY <2>1, OneThread, RecordFields DEF Inv
  <2> QED BY <1>3, <2>1, <2>2, <2>3, ContentTypes, SameMachine
       DEF PutWrite, WriteFile, Lifecycle!Next, Lifecycle!Put
<1> QED BY <1>2, <1>3

(* One request at a time, the service is the atomic life of a task: each   *)
(* request moves the task once, along an edge whose gate is open at that   *)
(* moment, and a crash at any access leaves the move made or not made.     *)
THEOREM ImplementsLifecycle ==
  ASSUME NEW t, Serial(t)
  PROVE  Spec => RefinesLifecycle
<1>1. Init => Lifecycle!Init
  <2> SUFFICES ASSUME Init PROVE Lifecycle!Init
    OBVIOUS
  <2>1. PICK seed \in Seeds : record = seed.record /\ files = seed.files
    BY DEF Init
  <2>2. IsSeed(seed)
    BY SeedsAssumption
  <2>3. /\ record \in Records \cup {NoRecord} /\ IsFiles(files)
        /\ record = NoRecord => files = NoFiles
        /\ Has(files, Marker) => Has(files, Packet)
        /\ record.state = "WRITTEN_BACK" => Has(files, Marker)
    BY <2>1, <2>2 DEF IsSeed
  <2>4. /\ record.state \in States \cup {None}
        /\ record.state = None => record = NoRecord
    BY <2>3, RecordFields
  <2>5. archived.record.state = None /\ archived.files = NoFiles
    BY DEF Init, NoSnapshot, NoRecord
  <2> QED BY <2>3, <2>4, <2>5, SameMachine
       DEF Lifecycle!Init, Lifecycle!Found, Lifecycle!NoSnapshot
<1>2. Inv(t) /\ [Next]_vars => [Lifecycle!Next]_(Lifecycle!vars)
  <2> SUFFICES ASSUME Inv(t), [Next]_vars
               PROVE  Lifecycle!Next \/ UNCHANGED Lifecycle!vars
    OBVIOUS
  <2>1. CASE UNCHANGED disk
    BY <2>1 DEF disk, Lifecycle!vars
  <2>2. CASE ~UNCHANGED disk
    <3>1. Writers(t)
      BY <2>2, OneThread, OthersRead DEF Next, Crash, vars, Inv
    <3>2. CASE CreatePublish(t) \/ ArchiveRename(t)
      BY <2>2, <3>2, MadeAtOnce
    <3>3. CASE Migrate(t) \/ WriteState(t)
      BY <3>3, RecordMoves DEF Lifecycle!vars
    <3>4. CASE FinalizeMark(t) \/ PutWrite(t)
      BY <3>4, FilesMove
    <3> QED BY <3>1, <3>2, <3>3, <3>4 DEF Writers
  <2> QED BY <2>1, <2>2
<1> QED BY <1>1, <1>2, SerialAlways, PTL DEF Spec, RefinesLifecycle, Lifecycle!Spec
=============================================================================
