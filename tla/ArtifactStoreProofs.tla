--------------------------- MODULE ArtifactStoreProofs ---------------------------
(***************************************************************************)
(* Theorems about ArtifactStore for any number of worker threads, any set  *)
(* of requests and any tasks found on disk.                                *)
(***************************************************************************)
EXTENDS ArtifactStore, TLAPS

-----------------------------------------------------------------------------
(* Data.                                                                   *)

LEMMA StateNames ==
  /\ States = {"NEW", "EVIDENCE_READY", "DESIGN_APPROVED", "TESTSPEC_FROZEN",
               "IMPLEMENTED", "IMPL_APPROVED", "VALIDATED", "RELEASED",
               "WRITTEN_BACK"}
  /\ None \notin States
BY DEF States, Rank, None

(* A state AtLeast VALIDATED is one a marker may record.                   *)
LEMMA MarkerStatesAtLeast ==
  \A s \in States : AtLeast(s, "VALIDATED") <=> s \in MarkerStates
BY StateNames DEF AtLeast, Rank, MarkerStates

LEMMA WrittenBackRank ==
  \A s \in States : WritesBack(s) => s = "RELEASED"
BY StateNames DEF AtLeast, Rank, WritesBack

LEMMA RecordFields ==
  ASSUME NEW r \in Records \cup {NoRecord}
  PROVE  /\ r.state \in States \cup {None}
         /\ r.previous \in States \cup {None}
         /\ r.legacy \in BOOLEAN
         /\ r \in Records <=> r # NoRecord
         /\ r # NoRecord <=> r.state # None
         /\ r = NoRecord => r.previous = None /\ ~r.legacy
<1>1. CASE r \in Records
  <2>1. r.state \in States /\ r.previous \in States \cup {None}
        /\ r.legacy \in BOOLEAN
    BY <1>1 DEF Records
  <2>2. NoRecord.state = None
    BY DEF NoRecord
  <2> QED BY <1>1, <2>1, <2>2, StateNames
<1>2. CASE r = NoRecord
  <2>1. r.state = None /\ r.previous = None /\ r.legacy = FALSE
    BY <1>2 DEF NoRecord
  <2>2. \A q \in Records : q.state \in States
    BY DEF Records
  <2> QED BY <1>2, <2>1, <2>2, StateNames
<1> QED BY <1>1, <1>2

LEMMA RecordMade ==
  ASSUME NEW s \in States, NEW p \in States \cup {None}
  PROVE  /\ [state |-> s, previous |-> p, legacy |-> FALSE] \in Records
         /\ [state |-> s, previous |-> p, legacy |-> FALSE] # NoRecord
BY StateNames DEF Records, NoRecord

LEMMA RecordMigrated ==
  ASSUME NEW r \in Records
  PROVE  /\ [r EXCEPT !.legacy = FALSE] \in Records
         /\ [r EXCEPT !.legacy = FALSE] # NoRecord
         /\ [r EXCEPT !.legacy = FALSE].state = r.state
         /\ [r EXCEPT !.legacy = FALSE].previous = r.previous
BY StateNames DEF Records, NoRecord

LEMMA ArtifactNames ==
  /\ Marker \in Artifacts /\ Packet \in Artifacts /\ Marker # Packet
  /\ "task-brief.json" \in Artifacts
  /\ Marker # "task-brief.json" /\ Packet # "task-brief.json"
  /\ Marker \notin Reviews /\ Packet \notin Reviews
  /\ Marker # Report /\ Packet # Report
BY DEF Artifacts, Marker, Packet, Reviews, Report, Plain

LEMMA ContentTypes ==
  ASSUME NEW name \in Artifacts
  PROVE  /\ ContentsOf(name) \subseteq Contents
         /\ Missing \notin ContentsOf(name)
         /\ ContentsOf(Marker) = MarkerStates
BY ArtifactNames
   DEF ContentsOf, Contents, Missing, Verdicts, Outcomes, MarkerStates

LEMMA EmptyFiles ==
  /\ IsFiles(NoFiles) /\ IsFiles(FreshFiles)
  /\ \A name \in Artifacts : ~Has(NoFiles, name)
  /\ \A name \in Artifacts \ {"task-brief.json"} : ~Has(FreshFiles, name)
  /\ FreshFiles # NoFiles
<1>1. Missing \in Contents /\ "present" \in Contents /\ "present" # Missing
  BY DEF Contents, Missing
<1>2. "task-brief.json" \in Artifacts
  BY ArtifactNames
<1>3. "present" \in ContentsOf("task-brief.json")
  BY DEF ContentsOf, Reviews, Report, Marker
<1> QED BY <1>1, <1>2, <1>3 DEF IsFiles, NoFiles, FreshFiles, Has

LEMMA FilePut ==
  ASSUME NEW fs, IsFiles(fs),
         NEW name \in Artifacts, NEW content \in ContentsOf(name)
  PROVE  LET new == [fs EXCEPT ![name] = content]
         IN  /\ IsFiles(new)
             /\ new # NoFiles
             /\ Has(new, name)
             /\ \A other \in Artifacts : Has(fs, other) => Has(new, other)
             /\ \A other \in Artifacts \ {name} : new[other] = fs[other]
BY ContentTypes DEF IsFiles, Has, NoFiles

LEMMA CallFields ==
  ASSUME NEW c \in AllCalls \cup {NoCall}
  PROVE  /\ c.op \in Ops \cup {None}
         /\ c.op = "update" => c.target \in States
         /\ c.op \in {"update", "finalize"} => Target(c) \in States
         /\ c.op = "put" => /\ c.name \in Artifacts
                            /\ c.content \in ContentsOf(c.name)
         /\ c.op = None <=> c = NoCall
BY StateNames DEF AllCalls, NoCall, Ops, Target, None

-----------------------------------------------------------------------------
(* Type correctness.                                                       *)

DiskOK ==
  /\ root \in BOOLEAN
  /\ record \in Records \cup {NoRecord}
  /\ IsFiles(files)
  /\ archived.record \in Records \cup {NoRecord}
  /\ IsFiles(archived.files)
  /\ archived = [record |-> archived.record, files |-> archived.files]

LedgerOK == told \in States \cup {None} /\ audited \in BOOLEAN /\ cut \in BOOLEAN

(* What the place of a thread in a handler says of its request c, of the   *)
(* state k it read and of the legacy record s it holds.                    *)
Placed(label, c, k, s) ==
  /\ label \in {"current", "gate", "write"} => c.op \in {"update", "finalize"}
  /\ label \in {"read", "migrate"} => c.op \in {"get", "update", "finalize"}
  /\ label = "prior" => c.op = "update"
  /\ label \in {"check", "mark", "marked", "answer"} => c.op = "finalize"
  /\ label \in {"put", "put_write", "put_read"} => c.op = "put"
  /\ label = "put_write" => c.name # Marker
  /\ label = "migrate" =>
       s \in Records /\ (c.op = "finalize" => k \in States)
  /\ label \in {"check", "gate", "write"} => k \in States
  /\ label = "mark" => k \in MarkerStates

LocalsOK ==
  /\ pc \in [Threads -> PCs]
  /\ call \in [Threads -> AllCalls \cup {NoCall}]
  /\ prior \in [Threads -> States \cup {None}]
  /\ current \in [Threads -> States \cup {None}]
  /\ stale \in [Threads -> Records \cup {NoRecord}]
  /\ \A t \in Threads : Placed(pc[t], call[t], current[t], stale[t])

TypeInv == DiskOK /\ LedgerOK /\ LocalsOK

LEMMA TypeInvTypeOK == TypeInv => TypeOK
BY DEF TypeInv, TypeOK, DiskOK, LedgerOK, LocalsOK

(* A thread moves to a place its local variables are right for.            *)
LEMMA LocalsMoved ==
  ASSUME LocalsOK, NEW t \in Threads,
         NEW label \in PCs, NEW c \in AllCalls \cup {NoCall},
         NEW p \in States \cup {None}, NEW k \in States \cup {None},
         NEW s \in Records \cup {NoRecord},
         Placed(label, c, k, s),
         pc' = [pc EXCEPT ![t] = label], call' = [call EXCEPT ![t] = c],
         prior' = [prior EXCEPT ![t] = p], current' = [current EXCEPT ![t] = k],
         stale' = [stale EXCEPT ![t] = s]
  PROVE  LocalsOK'
<1>1. ASSUME NEW u \in Threads
      PROVE  Placed(pc'[u], call'[u], current'[u], stale'[u])
  <2>1. CASE u = t
    <3>1. pc'[u] = label /\ call'[u] = c /\ current'[u] = k /\ stale'[u] = s
      BY <2>1 DEF LocalsOK
    <3> QED BY <3>1
  <2>2. CASE u # t
    <3>1. /\ pc'[u] = pc[u] /\ call'[u] = call[u]
          /\ current'[u] = current[u] /\ stale'[u] = stale[u]
      BY <2>2 DEF LocalsOK
    <3> QED BY <3>1 DEF LocalsOK
  <2> QED BY <2>1, <2>2
<1> QED BY <1>1 DEF LocalsOK

LEMMA LocalsStep ==
  ASSUME LocalsOK, NEW t \in Threads, NEW label \in PCs, Step(t, label),
         Placed(label, call[t], current[t], stale[t])
  PROVE  LocalsOK'
<1>1. /\ call[t] \in AllCalls \cup {NoCall}
      /\ prior[t] \in States \cup {None} /\ current[t] \in States \cup {None}
      /\ stale[t] \in Records \cup {NoRecord}
  BY DEF LocalsOK
<1>2. /\ call' = [call EXCEPT ![t] = call[t]]
      /\ prior' = [prior EXCEPT ![t] = prior[t]]
      /\ current' = [current EXCEPT ![t] = current[t]]
      /\ stale' = [stale EXCEPT ![t] = stale[t]]
  BY DEF Step, locals, LocalsOK
<1>3. pc' = [pc EXCEPT ![t] = label]
  BY DEF Step, Goto
<1> QED BY <1>1, <1>2, <1>3, LocalsMoved

LEMMA LocalsFinish ==
  ASSUME LocalsOK, NEW t \in Threads, Finish(t)
  PROVE  LocalsOK'
<1>1. Placed("idle", NoCall, None, NoRecord)
  BY DEF Placed
<1> QED BY <1>1, LocalsMoved DEF Finish, Goto, PCs

(* Only what the label asks of the request is at stake in most steps.      *)
LEMMA LocalsStepIf ==
  ASSUME LocalsOK, NEW t \in Threads, NEW label \in PCs,
         NEW found \in BOOLEAN, StepIf(t, found, label),
         found => Placed(label, call[t], current[t], stale[t])
  PROVE  LocalsOK'
BY LocalsStep, LocalsFinish DEF StepIf

LEMMA DiskKept == DiskOK /\ UNCHANGED disk => DiskOK'
BY DEF DiskOK, disk

LEMMA LedgerKept == LedgerOK /\ UNCHANGED <<ledger, cut>> => LedgerOK'
BY DEF LedgerOK, ledger

LEMMA RecordWritten ==
  ASSUME DiskOK, NEW new \in Records, WriteRecord(new)
  PROVE  DiskOK'
BY DEF DiskOK, WriteRecord

LEMMA FileWritten ==
  ASSUME DiskOK, NEW name \in Artifacts, NEW content \in ContentsOf(name),
         WriteFile(name, content)
  PROVE  DiskOK'
BY FilePut DEF DiskOK, WriteFile

(* The record of the task, read.                                           *)
LEMMA RecordRead ==
  ASSUME DiskOK, record # NoRecord
  PROVE  record \in Records /\ record.state \in States
BY RecordFields DEF DiskOK, Records

LEMMA BeginType ==
  ASSUME TypeInv, NEW t \in Threads, Begin(t)
  PROVE  TypeInv'
<1>1. PICK c \in Calls : /\ call' = [call EXCEPT ![t] = c]
                         /\ Goto(t, FirstAccess(c.op))
  BY DEF Begin
<1>2. c \in AllCalls
  BY CallsAssumption
<1>3. c.op \in Ops
  BY <1>2 DEF AllCalls, Ops
<1>4. /\ FirstAccess(c.op) \in PCs
      /\ Placed(FirstAccess(c.op), c, current[t], stale[t])
  BY <1>3 DEF FirstAccess, PCs, Placed, Ops
<1>5. /\ prior[t] \in States \cup {None} /\ current[t] \in States \cup {None}
      /\ stale[t] \in Records \cup {NoRecord}
      /\ prior' = [prior EXCEPT ![t] = prior[t]]
      /\ current' = [current EXCEPT ![t] = current[t]]
      /\ stale' = [stale EXCEPT ![t] = stale[t]]
  BY DEF Begin, TypeInv, LocalsOK
<1>6. LocalsOK'
  BY <1>1, <1>2, <1>4, <1>5, LocalsMoved DEF Goto, TypeInv
<1> QED BY <1>6, DiskKept, LedgerKept DEF Begin, TypeInv, ledger

LEMMA CreateType ==
  ASSUME TypeInv, NEW t \in Threads, Create(t) \/ Reread(t)
  PROVE  TypeInv'
<1> USE DEF TypeInv
<1>1. CASE CreateCheck(t)
  <2>1. LocalsOK'
    BY <1>1, LocalsStep DEF CreateCheck, Placed, PCs
  <2> QED BY <1>1, <2>1, DiskKept, LedgerKept DEF CreateCheck, ledger
<1>2. CASE CreatePublish(t)
  <2>1. LocalsOK'
    BY <1>2, LocalsStep DEF CreatePublish, Placed, PCs
  <2>2. DiskOK'
    BY <1>2, DiskKept, RecordMade, EmptyFiles, StateNames
       DEF CreatePublish, DiskOK
  <2> QED BY <1>2, <2>1, <2>2, LedgerKept DEF CreatePublish, ledger
<1>3. CASE Reread(t)
  <2>1. LocalsOK'
    BY <1>3, LocalsStepIf DEF Reread, Placed, PCs, Readable, DiskOK, Has
  <2> QED BY <1>3, <2>1, DiskKept, LedgerKept DEF Reread, ledger
<1> QED BY <1>1, <1>2, <1>3 DEF Create

LEMMA ReadType ==
  ASSUME TypeInv, NEW t \in Threads, Read(t) \/ Migrate(t)
  PROVE  TypeInv'
<1> USE DEF TypeInv
<1>1. CASE Read(t)
  <2> DEFINE op == call[t].op
             ends == \/ record = NoRecord
                     \/ op = "get" /\ (~Readable \/ ~record.legacy)
             label == IF record.legacy THEN "migrate" ELSE AfterRead(op)
             s == IF record.legacy THEN record ELSE NoRecord
             k == IF op = "finalize" THEN record.state ELSE current[t]
  <2>1. op \in {"get", "update", "finalize"}
    BY <1>1 DEF Read, LocalsOK, Placed
  <2>2. CASE ends
    <3>1. LocalsOK'
      BY <1>1, <2>2, LocalsFinish DEF Read
    <3> QED BY <1>1, <3>1, DiskKept, LedgerKept DEF Read, ledger
  <2>3. CASE ~ends
    <3>1. record \in Records /\ record.state \in States
          /\ record.legacy \in BOOLEAN
      BY <2>3, RecordRead, RecordFields DEF DiskOK
    <3>2. /\ Goto(t, label)
          /\ stale' = [stale EXCEPT ![t] = s]
          /\ current' = [current EXCEPT ![t] = k]
          /\ UNCHANGED <<call, prior>>
      BY <1>1, <2>3 DEF Read
    <3>3. label \in PCs /\ Placed(label, call[t], k, s)
      BY <2>1, <2>3, <3>1 DEF AfterRead, PCs, Placed
    <3>4. /\ call[t] \in AllCalls \cup {NoCall}
          /\ prior[t] \in States \cup {None} /\ k \in States \cup {None}
          /\ s \in Records \cup {NoRecord}
          /\ call' = [call EXCEPT ![t] = call[t]]
          /\ prior' = [prior EXCEPT ![t] = prior[t]]
      BY <3>1, <3>2 DEF LocalsOK
    <3>5. LocalsOK'
      <4> HIDE DEF label, s, k
      <4> QED BY <3>2, <3>3, <3>4, LocalsMoved DEF Goto
    <3> QED BY <1>1, <3>5, DiskKept, LedgerKept DEF Read, ledger
  <2> QED BY <2>2, <2>3
<1>2. CASE Migrate(t)
  <2> DEFINE label == AfterRead(call[t].op)
  <2>1. /\ stale[t] \in Records
        /\ call[t].op \in {"get", "update", "finalize"}
        /\ call[t].op = "finalize" => current[t] \in States
    BY <1>2 DEF Migrate, LocalsOK, Placed
  <2>2. DiskOK'
    BY <1>2, <2>1, RecordMigrated, RecordWritten DEF Migrate
  <2>3. CASE call[t].op = "get"
    <3>1. LocalsOK'
      BY <1>2, <2>3, LocalsFinish DEF Migrate
    <3> QED BY <1>2, <2>2, <3>1, LedgerKept DEF Migrate, ledger
  <2>4. CASE call[t].op # "get"
    <3>1. label \in PCs /\ Placed(label, call[t], current[t], NoRecord)
      BY <2>1, <2>4 DEF AfterRead, PCs, Placed
    <3>2. /\ call[t] \in AllCalls \cup {NoCall}
          /\ prior[t] \in States \cup {None}
          /\ current[t] \in States \cup {None}
          /\ Goto(t, label)
          /\ call' = [call EXCEPT ![t] = call[t]]
          /\ prior' = [prior EXCEPT ![t] = prior[t]]
          /\ current' = [current EXCEPT ![t] = current[t]]
          /\ stale' = [stale EXCEPT ![t] = NoRecord]
      BY <1>2, <2>4 DEF Migrate, LocalsOK
    <3>3. LocalsOK'
      <4> HIDE DEF label
      <4> QED BY <3>1, <3>2, LocalsMoved DEF Goto
    <3> QED BY <1>2, <2>2, <3>3, LedgerKept DEF Migrate, ledger
  <2> QED BY <2>3, <2>4
<1> QED BY <1>1, <1>2

LEMMA UpdateType ==
  ASSUME TypeInv, NEW t \in Threads, Update(t)
  PROVE  TypeInv'
<1> USE DEF TypeInv
<1>0. /\ call[t] \in AllCalls \cup {NoCall}
      /\ prior[t] \in States \cup {None} /\ current[t] \in States \cup {None}
      /\ stale[t] \in Records \cup {NoRecord}
  BY DEF LocalsOK
<1>1. CASE ReadPrior(t)
  <2>1. CASE record = NoRecord
    BY <1>1, <2>1, LocalsFinish, DiskKept, LedgerKept DEF ReadPrior, ledger
  <2>2. CASE record # NoRecord
    <3>1. Placed("current", call[t], current[t], stale[t])
      BY <1>1 DEF ReadPrior, LocalsOK, Placed
    <3>2. /\ Goto(t, "current")
          /\ call' = [call EXCEPT ![t] = call[t]]
          /\ prior' = [prior EXCEPT ![t] = record.state]
          /\ current' = [current EXCEPT ![t] = current[t]]
          /\ stale' = [stale EXCEPT ![t] = stale[t]]
          /\ record.state \in States \cup {None}
      BY <1>1, <2>2, RecordRead DEF ReadPrior, LocalsOK
    <3>3. LocalsOK'
      BY <1>0, <3>1, <3>2, LocalsMoved DEF Goto, PCs
    <3> QED BY <1>1, <3>3, DiskKept, LedgerKept DEF ReadPrior, ledger
  <2> QED BY <2>1, <2>2
<1>2. CASE ReadCurrent(t)
  <2> DEFINE label == IF record.state = Target(call[t]) THEN "reject" ELSE "gate"
  <2>1. CASE record = NoRecord
    BY <1>2, <2>1, LocalsFinish, DiskKept, LedgerKept DEF ReadCurrent, ledger
  <2>2. CASE record # NoRecord
    <3>1. /\ label \in PCs
          /\ Placed(label, call[t], record.state, stale[t])
      BY <1>2, <2>2, RecordRead DEF ReadCurrent, LocalsOK, Placed, PCs
    <3>2. /\ Goto(t, label)
          /\ call' = [call EXCEPT ![t] = call[t]]
          /\ prior' = [prior EXCEPT ![t] = prior[t]]
          /\ current' = [current EXCEPT ![t] = record.state]
          /\ stale' = [stale EXCEPT ![t] = stale[t]]
          /\ record.state \in States \cup {None}
      BY <1>2, <2>2, RecordRead DEF ReadCurrent, LocalsOK
    <3>3. LocalsOK'
      <4> HIDE DEF label
      <4> QED BY <1>0, <3>1, <3>2, LocalsMoved DEF Goto
    <3> QED BY <1>2, <3>3, DiskKept, LedgerKept DEF ReadCurrent, ledger
  <2> QED BY <2>1, <2>2
<1>3. CASE Gate(t)
  <2> DEFINE label == IF ValidTransition(files, current[t], Target(call[t]))
                        THEN "write" ELSE "reject"
  <2>1. label \in PCs /\ Placed(label, call[t], current[t], stale[t])
    BY <1>3 DEF Gate, LocalsOK, Placed, PCs
  <2>2. LocalsOK'
    BY <1>3, <2>1, LocalsStep DEF Gate
  <2> QED BY <1>3, <2>2, DiskKept, LedgerKept DEF Gate, ledger
<1>4. CASE WriteState(t)
  <2>1. call[t].op \in {"update", "finalize"}
    BY <1>4 DEF WriteState, LocalsOK, Placed
  <2>2. Target(call[t]) \in States
    BY <1>0, <2>1, CallFields
  <2>3. DiskOK'
    BY <1>0, <1>4, <2>2, RecordMade, RecordWritten DEF WriteState
  <2>4. LocalsOK'
    BY <1>4, LocalsStep DEF WriteState, Placed, PCs
  <2> QED BY <1>4, <2>3, <2>4, LedgerKept DEF WriteState, ledger
<1> QED BY <1>1, <1>2, <1>3, <1>4 DEF Update

LEMMA FinalizeType ==
  ASSUME TypeInv, NEW t \in Threads, FinalizeExperience(t)
  PROVE  TypeInv'
<1> USE DEF TypeInv
<1>1. CASE FinalizeCheck(t)
  <2> DEFINE label == IF AtLeast(current[t], "VALIDATED") /\ Has(files, Packet)
                        THEN IF Has(files, Marker) THEN "marked" ELSE "mark"
                        ELSE "reject"
  <2>1. call[t].op = "finalize" /\ current[t] \in States
    BY <1>1 DEF FinalizeCheck, LocalsOK, Placed
  <2>2. label \in PCs /\ Placed(label, call[t], current[t], stale[t])
    BY <2>1, MarkerStatesAtLeast DEF Placed, PCs
  <2>3. LocalsOK'
    <3>1. Step(t, label)
      BY <1>1 DEF FinalizeCheck
    <3> HIDE DEF label
    <3> QED BY <2>2, <3>1, LocalsStep
  <2> QED BY <1>1, <2>3, DiskKept, LedgerKept DEF FinalizeCheck, ledger
<1>2. CASE FinalizeMark(t)
  <2>1. call[t].op = "finalize" /\ current[t] \in MarkerStates
    BY <1>2 DEF FinalizeMark, LocalsOK, Placed
  <2>2. DiskOK'
    BY <1>2, <2>1, FileWritten, ContentTypes, ArtifactNames DEF FinalizeMark
  <2>3. LocalsOK'
    BY <1>2, <2>1, LocalsStep DEF FinalizeMark, AfterMarker, Placed, PCs
  <2> QED BY <1>2, <2>2, <2>3, LedgerKept DEF FinalizeMark, ledger
<1>3. CASE FinalizeMarked(t)
  <2> DEFINE label == AfterMarker(record.state)
  <2>1. CASE record = NoRecord
    BY <1>3, <2>1, LocalsFinish, DiskKept, LedgerKept
       DEF FinalizeMarked, ledger
  <2>2. CASE record # NoRecord
    <3>1. call[t].op = "finalize"
      BY <1>3 DEF FinalizeMarked, LocalsOK, Placed
    <3>2. label \in PCs /\ Placed(label, call[t], record.state, stale[t])
      BY <3>1 DEF AfterMarker, Placed, PCs
    <3>3. /\ Goto(t, label)
          /\ call[t] \in AllCalls \cup {NoCall}
          /\ prior[t] \in States \cup {None}
          /\ record.state \in States \cup {None}
          /\ stale[t] \in Records \cup {NoRecord}
          /\ call' = [call EXCEPT ![t] = call[t]]
          /\ prior' = [prior EXCEPT ![t] = prior[t]]
          /\ current' = [current EXCEPT ![t] = record.state]
          /\ stale' = [stale EXCEPT ![t] = stale[t]]
      BY <1>3, <2>2, RecordRead DEF FinalizeMarked, LocalsOK
    <3>4. LocalsOK'
      <4> HIDE DEF label
      <4> QED BY <3>2, <3>3, LocalsMoved DEF Goto
    <3> QED BY <1>3, <3>4, DiskKept, LedgerKept DEF FinalizeMarked, ledger
  <2> QED BY <2>1, <2>2
<1>4. CASE FinalizeAnswer(t)
  <2>1. LocalsOK'
    BY <1>4, LocalsStepIf DEF FinalizeAnswer, Placed, PCs
  <2> QED BY <1>4, <2>1, DiskKept, LedgerKept DEF FinalizeAnswer, ledger
<1> QED BY <1>1, <1>2, <1>3, <1>4 DEF FinalizeExperience

LEMMA PutType ==
  ASSUME TypeInv, NEW t \in Threads, Put(t)
  PROVE  TypeInv'
<1> USE DEF TypeInv
<1>1. call[t].op = "put" /\ call[t] \in AllCalls \cup {NoCall}
  BY DEF Put, PutCheck, PutWrite, PutRead, LocalsOK, Placed
<1>2. CASE PutCheck(t)
  <2>1. LocalsOK'
    BY <1>1, <1>2, LocalsStepIf DEF PutCheck, Placed, PCs, DiskOK
  <2> QED BY <1>2, <2>1, DiskKept, LedgerKept DEF PutCheck, ledger
<1>3. CASE PutWrite(t)
  <2>1. DiskOK'
    BY <1>1, <1>3, CallFields, FileWritten DEF PutWrite
  <2>2. LocalsOK'
    BY <1>1, <1>3, LocalsStep DEF PutWrite, Placed, PCs
  <2> QED BY <1>3, <2>1, <2>2, LedgerKept DEF PutWrite, ledger
<1>4. CASE PutRead(t)
  <2>1. LocalsOK'
    BY <1>4, LocalsStepIf DEF PutRead, Placed, PCs, DiskOK, Has
  <2> QED BY <1>4, <2>1, DiskKept, LedgerKept DEF PutRead, ledger
<1> QED BY <1>2, <1>3, <1>4 DEF Put

LEMMA ArchiveType ==
  ASSUME TypeInv, NEW t \in Threads, Archive(t)
  PROVE  TypeInv'
<1> USE DEF TypeInv
<1>1. CASE ArchiveCheck(t)
  <2>1. LocalsOK'
    BY <1>1, LocalsStepIf DEF ArchiveCheck, Placed, PCs, DiskOK
  <2> QED BY <1>1, <2>1, DiskKept, LedgerKept DEF ArchiveCheck, ledger
<1>2. CASE ArchiveRename(t)
  <2>1. LocalsOK'
    BY <1>2, LocalsStep, LocalsFinish DEF ArchiveRename, Placed, PCs
  <2>2. DiskOK'
    <3>1. CASE UNCHANGED disk
      BY <3>1, DiskKept
    <3>2. CASE ~UNCHANGED disk
      <4>1. /\ archived' = [record |-> record, files |-> files]
            /\ root' = FALSE /\ record' = NoRecord /\ files' = NoFiles
        BY <1>2, <3>2 DEF ArchiveRename
      <4> QED BY <4>1, EmptyFiles DEF DiskOK
    <3> QED BY <3>1, <3>2
  <2> QED BY <1>2, <2>1, <2>2, LedgerKept DEF ArchiveRename, ledger
<1> QED BY <1>1, <1>2 DEF Archive

LEMMA LogType ==
  ASSUME TypeInv, NEW t \in Threads, Log(t)
  PROVE  TypeInv'
<1> USE DEF TypeInv
<1>1. CASE Accept(t)
  <2>1. LocalsOK'
    BY <1>1, LocalsStep, LocalsFinish DEF Accept, Placed, PCs
  <2>2. Tells(call[t]) \in States \cup {None}
    BY CallFields, StateNames DEF Tells, LocalsOK, LedgerOK
  <2> QED BY <1>1, <2>1, <2>2, DiskKept DEF Accept, LedgerOK
<1>2. CASE Audit(t)
  BY <1>2, LocalsFinish, DiskKept DEF Audit, LedgerOK
<1>3. CASE Reject(t)
  BY <1>3, LocalsFinish, DiskKept, LedgerKept DEF Reject
<1> QED BY <1>1, <1>2, <1>3 DEF Log

LEMMA CrashType ==
  ASSUME TypeInv, Crash
  PROVE  TypeInv'
<1>1. LocalsOK'
  BY DEF Crash, LocalsOK, Placed, PCs
<1>2. LedgerOK'
  BY DEF Crash, TypeInv, LedgerOK, ledger
<1> QED BY <1>1, <1>2, DiskKept DEF Crash, TypeInv

LEMMA InitType == Init => TypeInv
<1> SUFFICES ASSUME Init PROVE TypeInv
  OBVIOUS
<1>1. PICK seed \in Seeds : /\ record = seed.record
                            /\ files = seed.files
                            /\ root = (seed.record # NoRecord)
                            /\ told = seed.record.state
  BY DEF Init
<1>2. IsSeed(seed)
  BY SeedsAssumption
<1>3. /\ record \in Records \cup {NoRecord} /\ IsFiles(files)
      /\ told \in States \cup {None}
  BY <1>1, <1>2, RecordFields DEF IsSeed
<1>4. DiskOK
  BY <1>1, <1>3, EmptyFiles DEF DiskOK, Init, NoSnapshot
<1>5. LocalsOK
  BY DEF Init, LocalsOK, Placed, PCs
<1> QED BY <1>3, <1>4, <1>5 DEF TypeInv, LedgerOK, Init

LEMMA TypeStep == TypeInv /\ [Next]_vars => TypeInv'
<1> SUFFICES ASSUME TypeInv, [Next]_vars PROVE TypeInv'
  OBVIOUS
<1>1. CASE Crash
  BY <1>1, CrashType
<1>2. ASSUME NEW t \in Threads, Serve(t) PROVE TypeInv'
  BY <1>2, BeginType, ReadType, CreateType, UpdateType, FinalizeType,
     PutType, ArchiveType, LogType DEF Serve
<1>3. CASE UNCHANGED vars
  BY <1>3 DEF vars, locals, TypeInv, LocalsOK, LedgerOK, DiskOK, disk, ledger
<1> QED BY <1>1, <1>2, <1>3 DEF Next

LEMMA TypeInvariant == Spec => []TypeInv
BY InitType, TypeStep, PTL DEF Spec

(* Whatever the threads do, the disk, the ledger and the local variables   *)
(* hold values of their types: the record read is never written back       *)
(* malformed, and no handler reads a local variable before it is set.      *)
THEOREM TypeCorrect == Spec => []TypeOK
BY TypeInvariant, TypeInvTypeOK, PTL

-----------------------------------------------------------------------------
(* The shape of a step: it is one thread's, and only six actions write.    *)

LEMMA OthersStay ==
  ASSUME LocalsOK, NEW t \in Threads, Serve(t), NEW u \in Threads, u # t
  PROVE  /\ pc'[u] = pc[u] /\ call'[u] = call[u]
         /\ current'[u] = current[u] /\ stale'[u] = stale[u]
<1> USE DEF LocalsOK, Finish, Step, StepIf, Goto, locals
<1>1. CASE Begin(t) \/ Read(t) \/ Migrate(t) \/ Reread(t)
  BY <1>1 DEF Begin, Read, Migrate, Reread
<1>2. CASE Create(t) \/ Archive(t) \/ Put(t) \/ Log(t)
  BY <1>2 DEF Create, CreateCheck, CreatePublish, Archive, ArchiveCheck,
       ArchiveRename, Put, PutCheck, PutWrite, PutRead, Log, Accept, Audit,
       Reject
<1>3. CASE Update(t)
  BY <1>3 DEF Update, ReadPrior, ReadCurrent, Gate, WriteState
<1>4. CASE FinalizeExperience(t)
  BY <1>4 DEF FinalizeExperience, FinalizeCheck, FinalizeMark, FinalizeMarked,
       FinalizeAnswer
<1> QED BY <1>1, <1>2, <1>3, <1>4 DEF Serve

Writers(t) ==
  \/ CreatePublish(t) \/ Migrate(t) \/ WriteState(t)
  \/ FinalizeMark(t) \/ PutWrite(t) \/ ArchiveRename(t)

LEMMA OthersRead ==
  ASSUME NEW t \in Threads, Serve(t)
  PROVE  Writers(t) \/ UNCHANGED disk
<1>1. CASE Begin(t) \/ Read(t) \/ Migrate(t) \/ Reread(t)
  BY <1>1 DEF Begin, Read, Reread, Writers
<1>2. CASE Create(t) \/ Archive(t) \/ Put(t) \/ Log(t)
  BY <1>2 DEF Create, CreateCheck, Archive, ArchiveCheck, Put, PutCheck,
       PutRead, Log, Accept, Audit, Reject, Writers
<1>3. CASE Update(t) \/ FinalizeExperience(t)
  BY <1>3 DEF Update, ReadPrior, ReadCurrent, Gate, FinalizeExperience,
       FinalizeCheck, FinalizeMarked, FinalizeAnswer, Writers
<1> QED BY <1>1, <1>2, <1>3 DEF Serve

(* Where a thread that is about to write comes from.                       *)
LEMMA Arrivals ==
  ASSUME LocalsOK, NEW t \in Threads, Serve(t)
  PROVE  /\ pc'[t] = "write" => Gate(t)
         /\ pc'[t] = "migrate" => Read(t)
         /\ pc'[t] = "mark" => FinalizeCheck(t)
<1> USE DEF LocalsOK, Finish, Step, StepIf, Goto, locals
<1>1. CASE Begin(t)
  <2>1. PICK c \in Calls : Goto(t, FirstAccess(c.op))
    BY <1>1 DEF Begin
  <2>2. c.op \in Ops
    BY CallsAssumption DEF AllCalls, Ops
  <2> QED BY <2>1, <2>2 DEF FirstAccess, Ops
<1>2. CASE Read(t) \/ Reread(t)
  <2>1. call[t].op \in {"get", "update", "finalize"} \/ Reread(t)
    BY <1>2 DEF Read, Placed
  <2> QED BY <1>2, <2>1 DEF Read, Reread, AfterRead
<1>3. CASE Migrate(t)
  <2>1. call[t].op \in {"get", "update", "finalize"}
    BY <1>3 DEF Migrate, Placed
  <2> QED BY <1>3, <2>1 DEF Migrate, AfterRead
<1>4. CASE Create(t) \/ Archive(t) \/ Put(t) \/ Log(t)
  BY <1>4 DEF Create, CreateCheck, CreatePublish, Archive, ArchiveCheck,
       ArchiveRename, Put, PutCheck, PutWrite, PutRead, Log, Accept, Audit,
       Reject
<1>5. CASE Update(t)
  BY <1>5 DEF Update, ReadPrior, ReadCurrent, Gate, WriteState
<1>6. CASE FinalizeExperience(t)
  BY <1>6 DEF FinalizeExperience, FinalizeCheck, FinalizeMark, FinalizeMarked,
       FinalizeAnswer, AfterMarker
<1> QED BY <1>1, <1>2, <1>3, <1>4, <1>5, <1>6 DEF Serve

-----------------------------------------------------------------------------
(* Every record names the edge it was made along.  The edge was checked    *)
(* against the state the thread read, and that state, not the one found    *)
(* when the record is written, is what the record keeps as previous.       *)

Legal(r) == r.previous = None \/ <<r.previous, r.state>> \in Edges

EdgeAhead(t) ==
  /\ pc[t] = "write" => <<current[t], Target(call[t])>> \in Edges
  /\ pc[t] = "migrate" => Legal(stale[t])

EdgeInv == Legal(record) /\ \A t \in Threads : EdgeAhead(t)

LEMMA EdgeInit == Init => EdgeInv
<1> SUFFICES ASSUME Init PROVE EdgeInv
  OBVIOUS
<1>1. PICK seed \in Seeds : record = seed.record
  BY DEF Init
<1>2. Legal(record)
  BY <1>1, SeedsAssumption DEF IsSeed, Legal
<1> QED BY <1>2 DEF Init, EdgeInv, EdgeAhead

LEMMA EdgeServe ==
  ASSUME TypeInv, EdgeInv, NEW t \in Threads, Serve(t)
  PROVE  EdgeInv'
<1> USE DEF TypeInv
<1>1. Legal(record')
  <2>1. CASE UNCHANGED disk
    BY <2>1 DEF EdgeInv, disk
  <2>2. CASE CreatePublish(t)
    BY <2>2 DEF CreatePublish, EdgeInv, Legal, disk
  <2>3. CASE Migrate(t)
    <3>1. stale[t] \in Records /\ Legal(stale[t])
      BY <2>3 DEF Migrate, LocalsOK, Placed, EdgeInv, EdgeAhead
    <3> QED BY <2>3, <3>1, RecordMigrated DEF Migrate, WriteRecord, Legal
  <2>4. CASE WriteState(t)
    BY <2>4 DEF WriteState, WriteRecord, EdgeInv, EdgeAhead, Legal
  <2>5. CASE FinalizeMark(t) \/ PutWrite(t)
    BY <2>5 DEF FinalizeMark, PutWrite, WriteFile, EdgeInv
  <2>6. CASE ArchiveRename(t)
    BY <2>6 DEF ArchiveRename, EdgeInv, Legal, NoRecord, disk
  <2> QED BY <2>1, <2>2, <2>3, <2>4, <2>5, <2>6, OthersRead DEF Writers
<1>2. ASSUME NEW u \in Threads, u # t
      PROVE  EdgeAhead(u)'
  BY <1>2, OthersStay DEF EdgeInv, EdgeAhead
<1>3. EdgeAhead(t)'
  <2>1. CASE pc'[t] = "write"
    <3>1. Gate(t) /\ pc[t] = "gate"
      BY <2>1, Arrivals DEF Gate
    <3>2. ValidTransition(files, current[t], Target(call[t]))
      BY <2>1, <3>1 DEF Gate, Step, Goto, LocalsOK
    <3>3. current' = current /\ call' = call
      BY <3>1 DEF Gate, Step, locals
    <3> QED BY <2>1, <3>2, <3>3 DEF EdgeAhead, ValidTransition
  <2>2. CASE pc'[t] = "migrate"
    <3>1. Read(t)
      BY <2>2, Arrivals
    <3>2. stale'[t] = record
      <4>1. call[t].op \in {"get", "update", "finalize"}
        BY <3>1 DEF Read, LocalsOK, Placed
      <4> QED BY <2>2, <3>1, <4>1
             DEF Read, LocalsOK, Finish, Goto, AfterRead
    <3> QED BY <2>2, <3>2 DEF EdgeAhead, EdgeInv, Legal
  <2> QED BY <2>1, <2>2 DEF EdgeAhead
<1> QED BY <1>1, <1>2, <1>3 DEF EdgeInv, Legal

LEMMA EdgeStep == TypeInv /\ EdgeInv /\ [Next]_vars => EdgeInv'
<1> SUFFICES ASSUME TypeInv, EdgeInv, [Next]_vars PROVE EdgeInv'
  OBVIOUS
<1>1. CASE Crash
  BY <1>1 DEF Crash, disk, EdgeInv, EdgeAhead, Legal
<1>2. CASE UNCHANGED vars
  BY <1>2 DEF vars, disk, locals, EdgeInv, EdgeAhead, Legal
<1> QED BY <1>1, <1>2, EdgeServe DEF Next

(* The record on disk names a legal edge, however many updates,            *)
(* finalizations and migrations of legacy records overlap.                 *)
THEOREM EdgeAlwaysRecorded == Spec => []EdgeRecorded
<1>1. EdgeInv => EdgeRecorded
  BY DEF EdgeInv, Legal, EdgeRecorded
<1> QED BY <1>1, TypeInvariant, EdgeInit, EdgeStep, PTL DEF Spec

-----------------------------------------------------------------------------
(* The directory of a task is never left empty: it appears with a record   *)
(* or an artifact in it, and disappears with everything it holds.          *)

Directory == root <=> record # NoRecord \/ files # NoFiles

LEMMA DirectoryInit == Init => Directory
<1> SUFFICES ASSUME Init PROVE Directory
  OBVIOUS
<1>1. PICK seed \in Seeds : /\ record = seed.record /\ files = seed.files
                            /\ root = (seed.record # NoRecord)
  BY DEF Init
<1>2. seed.record = NoRecord => seed.files = NoFiles
  BY SeedsAssumption DEF IsSeed
<1> QED BY <1>1, <1>2 DEF Directory

LEMMA DirectoryServe ==
  ASSUME TypeInv, Directory, NEW t \in Threads, Serve(t)
  PROVE  Directory'
<1> USE DEF TypeInv
<1>1. CASE UNCHANGED disk
  BY <1>1 DEF Directory, disk
<1>2. CASE CreatePublish(t)
  BY <1>2, EmptyFiles DEF CreatePublish, Directory, disk
<1>3. CASE Migrate(t)
  <2>1. stale[t] \in Records
    BY <1>3 DEF Migrate, LocalsOK, Placed
  <2> QED BY <1>3, <2>1, RecordMigrated DEF Migrate, WriteRecord, Directory
<1>4. CASE WriteState(t)
  <2>1. Target(call[t]) \in States /\ current[t] \in States \cup {None}
    BY <1>4, CallFields DEF WriteState, LocalsOK, Placed
  <2> QED BY <1>4, <2>1, RecordMade DEF WriteState, WriteRecord, Directory
<1>5. CASE FinalizeMark(t)
  <2>1. current[t] \in ContentsOf(Marker)
    BY <1>5, ContentTypes, ArtifactNames DEF FinalizeMark, LocalsOK, Placed
  <2> QED BY <1>5, <2>1, FilePut, ArtifactNames
         DEF FinalizeMark, WriteFile, Directory, DiskOK
<1>6. CASE PutWrite(t)
  <2>1. call[t].op = "put" /\ call[t] \in AllCalls \cup {NoCall}
    BY <1>6 DEF PutWrite, LocalsOK, Placed
  <2> QED BY <1>6, <2>1, CallFields, FilePut
         DEF PutWrite, WriteFile, Directory, DiskOK
<1>7. CASE ArchiveRename(t)
  BY <1>7 DEF ArchiveRename, Directory, disk
<1> QED BY <1>1, <1>2, <1>3, <1>4, <1>5, <1>6, <1>7, OthersRead DEF Writers

LEMMA DirectoryStep == TypeInv /\ Directory /\ [Next]_vars => Directory'
<1> SUFFICES ASSUME TypeInv, Directory, [Next]_vars PROVE Directory'
  OBVIOUS
<1>1. CASE Crash
  BY <1>1 DEF Crash, disk, Directory
<1>2. CASE UNCHANGED vars
  BY <1>2 DEF vars, disk, Directory
<1> QED BY <1>1, <1>2, DirectoryServe DEF Next

LEMMA DirectoryInvariant == Spec => []Directory
BY TypeInvariant, DirectoryInit, DirectoryStep, PTL DEF Spec

-----------------------------------------------------------------------------
(* What disappears, and where it goes.                                     *)

LEMMA RecordSet ==
  ASSUME TypeInv, NEW t \in Threads, Migrate(t) \/ WriteState(t)
  PROVE  record' # NoRecord
<1>1. CASE Migrate(t)
  <2>1. stale[t] \in Records
    BY <1>1 DEF Migrate, TypeInv, LocalsOK, Placed
  <2> QED BY <1>1, <2>1, RecordMigrated DEF Migrate, WriteRecord
<1>2. CASE WriteState(t)
  <2>1. Target(call[t]) \in States /\ current[t] \in States \cup {None}
    BY <1>2, CallFields DEF WriteState, TypeInv, LocalsOK, Placed
  <2> QED BY <1>2, <2>1, RecordMade DEF WriteState, WriteRecord
<1> QED BY <1>1, <1>2

LEMMA FilesKept ==
  ASSUME TypeInv, NEW t \in Threads, FinalizeMark(t) \/ PutWrite(t)
  PROVE  \A name \in Artifacts : Has(files, name) => Has(files', name)
<1>1. CASE FinalizeMark(t)
  <2>1. current[t] \in ContentsOf(Marker)
    BY <1>1, ContentTypes, ArtifactNames
       DEF FinalizeMark, TypeInv, LocalsOK, Placed
  <2> QED BY <1>1, <2>1, FilePut, ArtifactNames
         DEF FinalizeMark, WriteFile, TypeInv, DiskOK
<1>2. CASE PutWrite(t)
  <2>1. call[t].op = "put" /\ call[t] \in AllCalls \cup {NoCall}
    BY <1>2 DEF PutWrite, TypeInv, LocalsOK, Placed
  <2>2. call[t].name \in Artifacts /\ call[t].content \in ContentsOf(call[t].name)
    BY <2>1, CallFields
  <2>3. /\ IsFiles(files)
        /\ files' = [files EXCEPT ![call[t].name] = call[t].content]
    BY <1>2 DEF PutWrite, WriteFile, TypeInv, DiskOK
  <2> QED BY <2>2, <2>3, FilePut
<1> QED BY <1>1, <1>2

Kept ==
  /\ \A name \in Artifacts : Has(files, name) => Has(files', name)
  /\ record # NoRecord => record' # NoRecord

(* A step keeps the task and its archive, or moves the one to the other.   *)
LEMMA KeptOrArchived ==
  ASSUME TypeInv, Directory, [Next]_vars
  PROVE  \/ Kept /\ archived' = archived
         \/ /\ archived = NoSnapshot
            /\ archived' = [record |-> record, files |-> files]
            /\ archived' # NoSnapshot
            /\ record' = NoRecord /\ files' = NoFiles
<1>1. CASE UNCHANGED disk
  BY <1>1 DEF Kept, disk
<1>2. ASSUME NEW t \in Threads, CreatePublish(t), ~UNCHANGED disk
      PROVE  Kept /\ archived' = archived
  BY <1>2, EmptyFiles DEF CreatePublish, Directory, Kept
<1>3. ASSUME NEW t \in Threads, Migrate(t) \/ WriteState(t)
      PROVE  Kept /\ archived' = archived
  BY <1>3, RecordSet DEF Migrate, WriteState, WriteRecord, Kept
<1>4. ASSUME NEW t \in Threads, FinalizeMark(t) \/ PutWrite(t)
      PROVE  Kept /\ archived' = archived
  BY <1>4, FilesKept DEF FinalizeMark, PutWrite, WriteFile, Kept
<1>5. ASSUME NEW t \in Threads, ArchiveRename(t), ~UNCHANGED disk
      PROVE  /\ archived = NoSnapshot
             /\ archived' = [record |-> record, files |-> files]
             /\ archived' # NoSnapshot
             /\ record' = NoRecord /\ files' = NoFiles
  <2>1. /\ root /\ archived = NoSnapshot
        /\ archived' = [record |-> record, files |-> files]
        /\ record' = NoRecord /\ files' = NoFiles
    BY <1>5 DEF ArchiveRename
  <2>2. record # NoRecord \/ files # NoFiles
    BY <2>1 DEF Directory
  <2> QED BY <2>1, <2>2 DEF NoSnapshot
<1>6. CASE Crash \/ UNCHANGED vars
  BY <1>1, <1>6 DEF Crash, vars
<1> QED BY <1>1, <1>2, <1>3, <1>4, <1>5, <1>6, OthersRead DEF Next, Writers

(* Whatever requests overlap, the record and the artifacts of a task       *)
(* disappear only into its archive, which then holds all of them.          *)
THEOREM NothingEverLost == Spec => NothingLost
<1>1. TypeInv /\ Directory /\ [Next]_vars =>
        [\/ \E name \in Artifacts : Has(files, name) /\ ~Has(files', name)
         \/ record # NoRecord /\ record' = NoRecord
         => archived' = [record |-> record, files |-> files]]_vars
  BY KeptOrArchived DEF Kept
<1> QED BY <1>1, TypeInvariant, DirectoryInvariant, PTL DEF Spec, NothingLost

(* An archive, once made, is never written to, removed or replaced.        *)
THEOREM ArchiveIsFinal == Spec => ArchivedFinal
<1>1. TypeInv /\ Directory /\ [Next]_vars =>
        [archived # NoSnapshot => archived' = archived]_vars
  BY KeptOrArchived
<1> QED BY <1>1, TypeInvariant, DirectoryInvariant, PTL DEF Spec, ArchivedFinal

-----------------------------------------------------------------------------
(* A marker has its packet, a written-back task its marker.  What a thread *)
(* has found stays so until it writes, unless the task is archived: there  *)
(* is no other way to lose an artifact.                                    *)

MarkerAhead(t) ==
  /\ pc[t] = "mark" => Has(files, Packet)
  /\ pc[t] = "write" /\ Target(call[t]) = "WRITTEN_BACK" => Has(files, Marker)
  /\ pc[t] = "migrate" /\ stale[t].state = "WRITTEN_BACK" => Has(files, Marker)

Finalized ==
  /\ Has(files, Marker) => Has(files, Packet)
  /\ record.state = "WRITTEN_BACK" => Has(files, Marker)

FinalizedInv ==
  archived = NoSnapshot => Finalized /\ \A t \in Threads : MarkerAhead(t)

LEMMA FinalizedInit == Init => FinalizedInv
<1> SUFFICES ASSUME Init PROVE FinalizedInv
  OBVIOUS
<1>1. PICK seed \in Seeds : record = seed.record /\ files = seed.files
  BY DEF Init
<1>2. Finalized
  BY <1>1, SeedsAssumption DEF IsSeed, Finalized
<1> QED BY <1>2 DEF Init, FinalizedInv, MarkerAhead

LEMMA FinalizedServe ==
  ASSUME TypeInv, Directory, FinalizedInv, NEW t \in Threads, Serve(t)
  PROVE  FinalizedInv'
<1> USE DEF TypeInv
<1> SUFFICES ASSUME archived' = NoSnapshot
             PROVE  Finalized' /\ \A u \in Threads : MarkerAhead(u)'
  BY DEF FinalizedInv
<1>1. archived = NoSnapshot /\ Kept
  BY KeptOrArchived DEF Next
<1>2. Finalized /\ \A u \in Threads : MarkerAhead(u)
  BY <1>1 DEF FinalizedInv
<1>3. /\ Has(files, Packet) => Has(files', Packet)
      /\ Has(files, Marker) => Has(files', Marker)
  BY <1>1, ArtifactNames DEF Kept
<1>4. Has(files', Marker) => Has(files', Packet)
  <2>1. CASE Has(files, Marker)
    BY <1>2, <1>3, <2>1 DEF Finalized
  <2>2. CASE ~Has(files, Marker)
    <3>1. CASE UNCHANGED files
      BY <1>2, <3>1 DEF Finalized
    <3>2. CASE CreatePublish(t) \/ ArchiveRename(t)
      BY <1>2, <2>2, <3>2, EmptyFiles, ArtifactNames
         DEF CreatePublish, ArchiveRename, Finalized, disk
    <3>3. CASE FinalizeMark(t)
      BY <1>2, <1>3, <3>3 DEF FinalizeMark, MarkerAhead
    <3>4. CASE PutWrite(t)
      <4>1. /\ call[t].op = "put" /\ call[t] \in AllCalls \cup {NoCall}
            /\ call[t].name # Marker
        BY <3>4 DEF PutWrite, LocalsOK, Placed
      <4>2. files'[Marker] = files[Marker]
        BY <3>4, <4>1, CallFields, FilePut, ArtifactNames
           DEF PutWrite, WriteFile, DiskOK
      <4> QED BY <2>2, <4>2 DEF Has
    <3>5. CASE Migrate(t) \/ WriteState(t)
      BY <3>1, <3>5 DEF Migrate, WriteState, WriteRecord
    <3> QED BY <3>1, <3>2, <3>3, <3>4, <3>5, OthersRead DEF Writers, disk
  <2> QED BY <2>1, <2>2
<1>5. record'.state = "WRITTEN_BACK" => Has(files', Marker)
  <2>1. CASE record' = record
    BY <1>2, <1>3, <2>1 DEF Finalized
  <2>2. CASE CreatePublish(t) \/ ArchiveRename(t)
    BY <1>2, <1>3, <2>2
       DEF CreatePublish, ArchiveRename, Finalized, NoRecord, None, disk
  <2>3. CASE Migrate(t)
    <3>1. stale[t] \in Records
      BY <2>3 DEF Migrate, LocalsOK, Placed
    <3>2. record'.state = stale[t].state
      BY <2>3, <3>1, RecordMigrated DEF Migrate, WriteRecord
    <3> QED BY <1>2, <1>3, <2>3, <3>2 DEF MarkerAhead, Migrate
  <2>4. CASE WriteState(t)
    <3>1. record'.state = Target(call[t])
      BY <2>4 DEF WriteState, WriteRecord
    <3> QED BY <1>2, <1>3, <2>4, <3>1 DEF MarkerAhead, WriteState
  <2>5. CASE FinalizeMark(t) \/ PutWrite(t)
    BY <2>1, <2>5 DEF FinalizeMark, PutWrite, WriteFile
  <2> QED BY <2>1, <2>2, <2>3, <2>4, <2>5, OthersRead DEF Writers, disk
<1>6. ASSUME NEW u \in Threads, u # t
      PROVE  MarkerAhead(u)'
  BY <1>2, <1>3, <1>6, OthersStay DEF MarkerAhead
<1>7. MarkerAhead(t)'
  <2>1. CASE pc'[t] = "mark"
    <3>1. FinalizeCheck(t)
      BY <2>1, Arrivals
    <3>2. Has(files, Packet)
      BY <2>1, <3>1 DEF FinalizeCheck, Step, Goto, LocalsOK
    <3> QED BY <1>3, <2>1, <3>2 DEF MarkerAhead
  <2>2. CASE pc'[t] = "write"
    <3>1. Gate(t)
      BY <2>2, Arrivals
    <3>2. GateOpen(files, Target(call[t]))
      BY <2>2, <3>1 DEF Gate, Step, Goto, LocalsOK, ValidTransition
    <3>3. Target(call[t]) = "WRITTEN_BACK" => Has(files, Marker)
      BY <3>2 DEF GateOpen
    <3>4. call' = call
      BY <3>1 DEF Gate, Step, locals
    <3> QED BY <1>3, <2>2, <3>3, <3>4 DEF MarkerAhead
  <2>3. CASE pc'[t] = "migrate"
    <3>1. Read(t)
      BY <2>3, Arrivals
    <3>2. stale'[t] = record
      <4>1. call[t].op \in {"get", "update", "finalize"}
        BY <3>1 DEF Read, LocalsOK, Placed
      <4> QED BY <2>3, <3>1, <4>1
             DEF Read, LocalsOK, Finish, Goto, AfterRead
    <3> QED BY <1>2, <1>3, <2>3, <3>2 DEF MarkerAhead, Finalized
  <2> QED BY <2>1, <2>2, <2>3 DEF MarkerAhead
<1>8. Finalized'
  BY <1>4, <1>5 DEF Finalized
<1> QED BY <1>6, <1>7, <1>8

LEMMA FinalizedStep ==
  TypeInv /\ Directory /\ FinalizedInv /\ [Next]_vars => FinalizedInv'
<1> SUFFICES ASSUME TypeInv, Directory, FinalizedInv, [Next]_vars
             PROVE  FinalizedInv'
  OBVIOUS
<1>1. CASE Crash
  BY <1>1 DEF Crash, disk, FinalizedInv, Finalized, MarkerAhead
<1>2. CASE UNCHANGED vars
  BY <1>2 DEF vars, disk, locals, FinalizedInv, Finalized, MarkerAhead
<1> QED BY <1>1, <1>2, FinalizedServe DEF Next

(* Until the id is archived, a finalization marker never stands without    *)
(* the experience packet it hands on, nor a written-back task without its  *)
(* marker, although the checks and the writes of overlapping requests      *)
(* interleave and a crash may come between them.                           *)
THEOREM FinalizedAlwaysSound == Spec => []FinalizedSound
<1>1. FinalizedInv => FinalizedSound
  BY DEF FinalizedInv, Finalized, FinalizedSound
<1> QED BY <1>1, TypeInvariant, DirectoryInvariant, FinalizedInit,
       FinalizedStep, PTL DEF Spec
=============================================================================
