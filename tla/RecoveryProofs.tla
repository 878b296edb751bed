----------------------------- MODULE RecoveryProofs -----------------------------
(***************************************************************************)
(* Theorems about Recovery.  What a restore leaves, and what a server that *)
(* is started on it recovers: any number of worker threads, any objects    *)
(* and requests, and an operator's command killed at any of its steps.     *)
(* And what a backup of a KB that is being written never misses: a server  *)
(* that serves one request at a time.                                      *)
(***************************************************************************)
EXTENDS Recovery, ThinKBSerialProofs

-----------------------------------------------------------------------------
(* Type correctness.                                                       *)

Archives ==
  [sections : SUBSET Sections, tasks : Nat, row : Rows \cup {NoRow},
   told : Tiers \cup {None}, file : [Tiers -> Documents \cup {NoDoc}]]

(* What is left of a walk, and what is left after its next directory.      *)
Rests == {WalkOrder, <<"canonical", "deprecated">>, <<"deprecated">>}

Phases ==
  {"idle", "pack_indexes", "pack_ledgers"} \cup Walking \cup Restoring

OperatorOK ==
  /\ tasks \in Nat
  /\ archive \in Archives
  /\ phase \in Phases
  /\ todo \in Rests \cup {<<>>}
  /\ phase \in Walking \cup {"cp_kb"} => todo \in Rests

(* The tiers of a rest, in the order of the walk.                          *)
Ahead(rest) ==
  IF rest = WalkOrder THEN Tiers
  ELSE IF rest = <<"canonical", "deprecated">> THEN {"canonical", "deprecated"}
  ELSE IF rest = <<"deprecated">> THEN {"deprecated"}
  ELSE {}

LEMMA RestIs ==
  ASSUME NEW rest \in Rests
  PROVE  /\ Head(rest) \in Tiers
         /\ Tail(rest) \in Rests \cup {<<>>}
         /\ Tail(rest) = <<>> <=> Tail(rest) \notin Rests
         /\ Head(rest) \in Ahead(rest)
         /\ Ahead(Tail(rest)) = Ahead(rest) \ {Head(rest)}
<1>1. CASE rest = WalkOrder
  <2>1. /\ Head(rest) = "candidate"
        /\ Tail(rest) = <<"canonical", "deprecated">>
        /\ Tail(rest) # <<>> /\ Tail(rest) # WalkOrder
    BY <1>1 DEF WalkOrder
  <2> QED BY <1>1, <2>1, TargetTiers DEF Rests, Ahead
<1>2. CASE rest = <<"canonical", "deprecated">>
  <2>1. /\ Head(rest) = "canonical" /\ Tail(rest) = <<"deprecated">>
        /\ Tail(rest) # <<>> /\ Tail(rest) # WalkOrder
        /\ Tail(rest) # <<"canonical", "deprecated">> /\ rest # WalkOrder
    BY <1>2 DEF WalkOrder
  <2> QED BY <1>2, <2>1, TargetTiers DEF Rests, Ahead
<1>3. CASE rest = <<"deprecated">>
  <2>1. /\ Head(rest) = "deprecated" /\ Tail(rest) = <<>>
        /\ rest # WalkOrder /\ rest # <<"canonical", "deprecated">>
        /\ <<>> # WalkOrder /\ <<>> # <<"canonical", "deprecated">>
        /\ <<>> # <<"deprecated">>
    BY <1>3 DEF WalkOrder
  <2> QED BY <1>3, <2>1, TargetTiers DEF Rests, Ahead
<1> QED BY <1>1, <1>2, <1>3 DEF Rests

LEMMA WalkOrderIs ==
  /\ WalkOrder \in Rests /\ Ahead(WalkOrder) = Tiers
  /\ <<>> \notin Rests /\ Ahead(<<>>) = {}
BY DEF WalkOrder, Rests, Ahead

LEMMA ArchiveFields ==
  ASSUME OperatorOK
  PROVE  /\ archive.sections \subseteq Sections /\ archive.tasks \in Nat
         /\ archive.row \in Rows \cup {NoRow}
         /\ archive.told \in Tiers \cup {None}
         /\ archive.file \in [Tiers -> Documents \cup {NoDoc}]
BY DEF OperatorOK, Archives

-----------------------------------------------------------------------------
(* The restore.                                                            *)

(* How far a restore has come, read off the step it makes next.            *)
TasksDone == Restoring \ {"rm_tasks", "cp_tasks"}
KBDone == TasksDone \ {"rm_kb", "cp_kb"}
LedgersDone == {"clear", "fill", "check"}

RestoreInv ==
  /\ phase \in Restoring =>
       ~serving /\ \A t \in Threads : pc[t] = "idle"
  /\ phase \in TasksDone => tasks = archive.tasks
  /\ phase = "cp_kb" =>
       \A tier \in Tiers :
         file[tier] = IF tier \in Ahead(todo) THEN NoDoc ELSE archive.file[tier]
  /\ phase \in KBDone \ {"check"} => file = archive.file
  /\ phase \in LedgersDone /\ "ledgers" \in archive.sections =>
       told = archive.told
  /\ phase = "fill" => row = NoRow
  /\ phase = "check" =>
       /\ \A tier \in Tiers : file[tier] = Upgraded(archive.file[tier])
       /\ row.tier = Winner(file)

OperatorInv == TypeInv /\ RecoveryInv /\ OperatorOK /\ RestoreInv

LEMMA UpgradedIs ==
  ASSUME NEW doc \in Documents \cup {NoDoc}
  PROVE  /\ Upgraded(doc) \in Documents \cup {NoDoc}
         /\ Upgraded(doc) = NoDoc <=> doc = NoDoc
         /\ Upgraded(doc).revision = doc.revision
<1>1. CASE doc \in Documents
  <2>1. doc # NoDoc
    BY <1>1, TextsAssumption DEF Documents, NoDoc
  <2> QED BY <1>1, <2>1, DocumentMigrated DEF Upgraded
<1>2. CASE doc = NoDoc
  <2>1. ASSUME NEW legacy
        PROVE  [[text |-> None, revision |-> 0, legacy |-> legacy]
                  EXCEPT !.legacy = legacy]
                 = [text |-> None, revision |-> 0, legacy |-> legacy]
    OBVIOUS
  <2>2. Upgraded(NoDoc) = NoDoc
    BY <2>1 DEF Upgraded, NoDoc
  <2> QED BY <1>2, <2>2
<1> QED BY <1>1, <1>2

LEMMA NotRestoring ==
  /\ phase \notin Restoring => RestoreInv
  /\ phase' \notin Restoring => RestoreInv'
<1>1. /\ TasksDone \subseteq Restoring /\ KBDone \subseteq Restoring
      /\ LedgersDone \subseteq Restoring
      /\ {"cp_kb", "fill", "check"} \subseteq Restoring
  BY DEF Restoring, TasksDone, KBDone, LedgersDone
<1> QED BY <1>1 DEF RestoreInv

LEMMA ServeStep == OperatorInv /\ (ServeKB \/ ServeTasks) => OperatorInv'
<1> SUFFICES ASSUME OperatorInv, ServeKB \/ ServeTasks PROVE OperatorInv'
  OBVIOUS
<1>1. phase \notin Restoring /\ UNCHANGED <<archive, phase, todo>>
  BY DEF ServeKB, ServeTasks
<1>2. [Next]_vars
  BY DEF ServeKB, ServeTasks
<1>3. TypeInv' /\ RecoveryInv'
  BY <1>2, TypeStep, RecoveryStep DEF OperatorInv
<1>4. tasks' \in Nat
  BY DEF ServeKB, ServeTasks, OperatorInv, OperatorOK
<1>5. OperatorOK'
  BY <1>1, <1>4 DEF OperatorInv, OperatorOK
<1>6. RestoreInv'
  BY <1>1, NotRestoring
<1> QED BY <1>3, <1>5, <1>6 DEF OperatorInv

(* The services are as they were, and no restore is under way.             *)
LEMMA BackupStep ==
  ASSUME OperatorInv, UNCHANGED <<vars, tasks>>, phase' \notin Restoring,
         OperatorOK'
  PROVE  OperatorInv'
<1>1. TypeInv' /\ RecoveryInv'
  BY DEF vars, OperatorInv, TypeInv, DiskOK, LocalsOK, RecoveryInv, Recovering,
         Filled
<1>2. RestoreInv'
  BY NotRestoring
<1> QED BY <1>1, <1>2 DEF OperatorInv

LEMMA WalkStep ==
  ASSUME OperatorInv,
         Backup \/ List \/ Add \/ PackIndexes \/ PackLedgers \/ Killed
  PROVE  OperatorInv'
<1> USE DEF OperatorInv
<1>0. /\ archive.sections \subseteq Sections
      /\ archive.file \in [Tiers -> Documents \cup {NoDoc}]
      /\ archive \in Archives
  BY ArchiveFields DEF OperatorOK
<1>1. CASE Backup
  <2>1. [NoArchive EXCEPT !.sections = {"tasks"}, !.tasks = tasks] \in Archives
    BY DEF NoArchive, Archives, OperatorOK, Sections
  <2>2. OperatorOK'
    BY <1>1, <2>1, WalkOrderIs DEF Backup, OperatorOK, Phases, Walking
  <2> QED BY <1>1, <2>2, BackupStep DEF Backup, Restoring
<1>2. CASE List
  <2>1. todo \in Rests
    BY <1>2 DEF List, OperatorOK, Phases, Walking
  <2>2. Tier \in Tiers /\ Tail(todo) \in Rests \cup {<<>>}
        /\ (Tail(todo) # <<>> => Tail(todo) \in Rests)
    BY <2>1, RestIs DEF Tier
  <2>3. archive' \in Archives
    BY <1>0, <1>2, <2>2 DEF List, Archives, Sections
  <2>4. OperatorOK'
    BY <1>2, <2>1, <2>2, <2>3 DEF List, NextDirectory, OperatorOK, Phases, Walking
  <2>5. phase' \notin Restoring
    BY <1>2 DEF List, NextDirectory, Restoring
  <2> QED BY <1>2, <2>4, <2>5, BackupStep DEF List
<1>3. CASE Add
  <2>1. todo \in Rests
    BY <1>3 DEF Add, OperatorOK, Phases, Walking
  <2>2. Tier \in Tiers /\ Tail(todo) \in Rests \cup {<<>>}
        /\ (Tail(todo) # <<>> => Tail(todo) \in Rests)
    BY <2>1, RestIs DEF Tier
  <2>3. archive' \in Archives
    <3>1. file[Tier] \in Documents \cup {NoDoc}
      BY <2>2 DEF TypeInv, DiskOK
    <3> QED BY <1>0, <1>3, <2>2, <3>1 DEF Add, Archives
  <2>4. OperatorOK'
    BY <1>3, <2>1, <2>2, <2>3, WalkOrderIs DEF Add, NextDirectory, OperatorOK, Phases, Walking
  <2>5. phase' \notin Restoring
    BY <1>3 DEF Add, NextDirectory, Restoring
  <2> QED BY <1>3, <2>4, <2>5, BackupStep DEF Add
<1>4. CASE PackIndexes
  <2>1. archive' \in Archives
    BY <1>0, <1>4 DEF PackIndexes, Archives, Sections, TypeInv, DiskOK
  <2>2. OperatorOK'
    BY <1>4, <2>1 DEF PackIndexes, OperatorOK, Phases, Walking
  <2> QED BY <1>4, <2>2, BackupStep DEF PackIndexes, Restoring
<1>5. CASE PackLedgers
  <2>1. archive' \in Archives
    BY <1>0, <1>5 DEF PackLedgers, Archives, Sections, TypeInv, DiskOK
  <2>2. OperatorOK'
    BY <1>5, <2>1 DEF PackLedgers, OperatorOK, Phases, Walking
  <2> QED BY <1>5, <2>2, BackupStep DEF PackLedgers, Restoring
<1>6. CASE Killed
  <2>1. OperatorOK'
    BY <1>6 DEF Killed, OperatorOK, Phases, Walking
  <2> QED BY <1>6, <2>1, BackupStep DEF Killed, Restoring
<1> QED BY <1>1, <1>2, <1>3, <1>4, <1>5, <1>6

(* A restore changes files, manifest and ledger while no thread works.     *)
LEMMA DownStep ==
  ASSUME OperatorInv, phase \in Restoring, UNCHANGED <<serving, cut, pc, mine>>,
         DiskOK'
  PROVE  TypeInv' /\ RecoveryInv'
<1>1. LocalsOK'
  BY DEF OperatorInv, TypeInv, LocalsOK
<1>2. \A t \in Threads : pc'[t] = "idle"
  BY DEF OperatorInv, RestoreInv
<1> QED BY <1>1, <1>2 DEF TypeInv, RecoveryInv

LEMMA RestoreStep ==
  ASSUME OperatorInv,
         Restore \/ ReplaceTasks \/ RemoveKB \/ CopyKB \/ ReplaceIndexes
           \/ ReplaceLedgers \/ Reindex \/ Check
  PROVE  OperatorInv'
<1> USE DEF OperatorInv
<1>0. /\ archive.sections \subseteq Sections /\ archive.tasks \in Nat
      /\ archive.row \in Rows \cup {NoRow} /\ archive.told \in Tiers \cup {None}
      /\ archive.file \in [Tiers -> Documents \cup {NoDoc}]
  BY ArchiveFields
<1>1. CASE Restore
  <2>1. OperatorOK'
    BY <1>1 DEF Restore, OperatorOK, Phases, Restoring, Walking
  <2>2. TypeInv' /\ RecoveryInv'
    BY <1>1 DEF Restore, vars, TypeInv, DiskOK, LocalsOK, RecoveryInv
  <2>3. RestoreInv'
    BY <1>1 DEF Restore, vars, RestoreInv, TasksDone, KBDone, LedgersDone
  <2> QED BY <2>1, <2>2, <2>3
<1>2. CASE ReplaceTasks
  <2>1. phase \in Restoring
    BY <1>2 DEF ReplaceTasks, Restoring
  <2>2. OperatorOK'
    BY <1>0, <1>2 DEF ReplaceTasks, Now, OperatorOK, Phases, Restoring, Walking, NoTree
  <2>3. DiskOK'
    BY <1>2 DEF ReplaceTasks, vars, TypeInv, DiskOK
  <2>4. RestoreInv'
    BY <1>2, <2>1 DEF ReplaceTasks, Now, vars, RestoreInv, Restoring, TasksDone,
                      KBDone, LedgersDone
  <2> QED BY <1>2, <2>1, <2>2, <2>3, <2>4, DownStep DEF ReplaceTasks, vars
<1>3. CASE RemoveKB
  <2>1. phase \in Restoring /\ phase \in TasksDone /\ phase = "rm_kb"
    BY <1>3 DEF RemoveKB, Restoring, TasksDone
  <2>2. CASE phase' = phase
    <3>1. PICK tier \in Tiers : file' = [file EXCEPT ![tier] = NoDoc]
      BY <1>3, <2>1, <2>2 DEF RemoveKB, OnDisk
    <3>2. OperatorOK'
      BY <1>3, <2>1, <2>2 DEF RemoveKB, OperatorOK, Phases, Walking
    <3>3. DiskOK'
      BY <1>3, <3>1 DEF RemoveKB, TypeInv, DiskOK
    <3>4. RestoreInv'
      BY <1>3, <2>1, <2>2
         DEF RemoveKB, RestoreInv, Restoring, TasksDone, KBDone, LedgersDone
    <3> QED BY <1>3, <2>1, <3>2, <3>3, <3>4, DownStep DEF RemoveKB
  <2>3. CASE phase' # phase
    <3>1. /\ OnDisk = {} /\ phase' = "cp_kb" /\ todo' = WalkOrder
          /\ UNCHANGED file
      BY <1>3, <2>3 DEF RemoveKB
    <3>2. OperatorOK'
      BY <1>3, <3>1, WalkOrderIs DEF RemoveKB, OperatorOK, Phases, Restoring, Walking
    <3>3. DiskOK'
      BY <1>3, <3>1 DEF RemoveKB, TypeInv, DiskOK
    <3>4. \A tier \in Tiers : file[tier] = NoDoc
      BY <3>1 DEF OnDisk
    <3>5. RestoreInv'
      BY <1>3, <2>1, <3>1, <3>4, WalkOrderIs
         DEF RemoveKB, RestoreInv, Restoring, TasksDone, KBDone, LedgersDone
    <3> QED BY <1>3, <2>1, <3>2, <3>3, <3>5, DownStep DEF RemoveKB
  <2> QED BY <2>2, <2>3
<1>4. CASE CopyKB
  <2>1. /\ phase \in Restoring /\ phase \in TasksDone /\ phase = "cp_kb"
        /\ todo \in Rests
    BY <1>4 DEF CopyKB, Restoring, TasksDone, OperatorOK
  <2>2. /\ Tier \in Tiers /\ Tail(todo) \in Rests \cup {<<>>}
        /\ (Tail(todo) # <<>> => Tail(todo) \in Rests)
        /\ Tier \in Ahead(todo)
        /\ Ahead(Tail(todo)) = Ahead(todo) \ {Tier}
    BY <2>1, RestIs DEF Tier
  <2>3. /\ file' \in [Tiers -> Documents \cup {NoDoc}]
        /\ file'[Tier] = archive.file[Tier]
        /\ \A tier \in Tiers \ {Tier} : file'[tier] = file[tier]
    <3>1. archive.file[Tier] \in Documents \cup {NoDoc}
      BY <1>0, <2>2
    <3>2. file[Tier] = NoDoc
      BY <2>1, <2>2 DEF RestoreInv
    <3>3. CASE archive.file[Tier] = NoDoc
      BY <1>4, <3>2, <3>3 DEF CopyKB, TypeInv, DiskOK
    <3>4. CASE archive.file[Tier] # NoDoc
      BY <1>4, <2>2, <3>1, <3>4, FilePut DEF CopyKB, TypeInv
    <3> QED BY <3>3, <3>4
  <2>4. /\ UNCHANGED <<row, told, serving, cut, pc, mine, tasks, archive>>
        /\ todo' = Tail(todo)
        /\ phase' = "cp_kb" <=> Tail(todo) # <<>>
        /\ phase' \in {"cp_kb", "rm_indexes", "ledgers", "clear"}
        /\ phase' = "clear" => "ledgers" \notin archive.sections
    BY <1>4 DEF CopyKB
  <2>5. OperatorOK'
    <3>1. phase' \in Walking \cup {"cp_kb"} => todo' \in Rests
      BY <2>2, <2>4 DEF Walking
    <3> QED BY <2>2, <2>4, <3>1 DEF OperatorOK, Phases, Restoring
  <2>6. DiskOK'
    BY <2>3, <2>4 DEF TypeInv, DiskOK
  <2>7. \A tier \in Tiers :
          file'[tier] = IF tier \in Ahead(todo') THEN NoDoc
                                                ELSE archive.file[tier]
    BY <2>1, <2>2, <2>3, <2>4 DEF RestoreInv
  <2>8. phase' # "cp_kb" => file' = archive.file
    <3>1. phase' # "cp_kb" => Ahead(todo') = {}
      BY <2>4, WalkOrderIs
    <3> QED BY <1>0, <2>3, <2>7, <3>1
  <2>9. RestoreInv'
    BY <2>1, <2>4, <2>7, <2>8 DEF RestoreInv, Restoring, TasksDone, KBDone,
                                  LedgersDone
  <2> QED BY <2>1, <2>4, <2>5, <2>6, <2>9, DownStep
<1>5. CASE ReplaceIndexes
  <2>1. phase \in Restoring /\ phase \in TasksDone /\ phase \in KBDone \ {"check"}
    BY <1>5 DEF ReplaceIndexes, Restoring, TasksDone, KBDone
  <2>2. OperatorOK'
    BY <1>0, <1>5 DEF ReplaceIndexes, Now, OperatorOK, Phases, Restoring, Walking
  <2>3. DiskOK'
    BY <1>0, <1>5 DEF ReplaceIndexes, Now, TypeInv, DiskOK
  <2>4. RestoreInv'
    BY <1>5, <2>1 DEF ReplaceIndexes, Now, RestoreInv, Restoring, TasksDone,
                      KBDone, LedgersDone
  <2> QED BY <1>5, <2>1, <2>2, <2>3, <2>4, DownStep DEF ReplaceIndexes
<1>6. CASE ReplaceLedgers
  <2>1. phase \in Restoring /\ phase \in TasksDone /\ phase \in KBDone \ {"check"}
    BY <1>6 DEF ReplaceLedgers, Restoring, TasksDone, KBDone
  <2>2. OperatorOK'
    BY <1>6 DEF ReplaceLedgers, Now, OperatorOK, Phases, Restoring, Walking
  <2>3. DiskOK'
    BY <1>0, <1>6 DEF ReplaceLedgers, Now, TypeInv, DiskOK
  <2>4. RestoreInv'
    BY <1>6, <2>1 DEF ReplaceLedgers, Now, RestoreInv, Restoring, TasksDone,
                      KBDone, LedgersDone
  <2> QED BY <1>6, <2>1, <2>2, <2>3, <2>4, DownStep DEF ReplaceLedgers
<1>7. CASE Reindex
  <2>1. /\ phase \in Restoring /\ phase \in TasksDone
        /\ phase \in KBDone \ {"check"} /\ phase \in LedgersDone
        /\ UNCHANGED <<told, serving, cut, pc, mine, tasks, archive, todo>>
    BY <1>7 DEF Reindex, Now, Restoring, TasksDone, KBDone, LedgersDone
  <2>2. CASE phase = "clear"
    <3>1. OperatorOK'
      BY <1>7, <2>1, <2>2 DEF Reindex, Now, OperatorOK, Phases, Restoring, Walking
    <3>2. DiskOK'
      BY <1>7, <2>1, <2>2 DEF Reindex, TypeInv, DiskOK
    <3>3. RestoreInv'
      BY <1>7, <2>1, <2>2
         DEF Reindex, Now, RestoreInv, Restoring, TasksDone, KBDone, LedgersDone
    <3> QED BY <2>1, <3>1, <3>2, <3>3, DownStep
  <2>3. CASE phase = "fill"
    <3>1. /\ file' = [tier \in Tiers |-> Upgraded(file[tier])]
          /\ IF OnDisk = {} THEN UNCHANGED row
                            ELSE PutRow(Winner(file), file[Winner(file)].revision)
          /\ phase' = "check"
      BY <1>7, <2>3 DEF Reindex, Now, Upgraded
    <3>2. \A tier \in Tiers :
            /\ file'[tier] = Upgraded(archive.file[tier])
            /\ file'[tier] \in Documents \cup {NoDoc}
            /\ file'[tier] = NoDoc <=> file[tier] = NoDoc
      BY <1>0, <2>1, <3>1, UpgradedIs DEF RestoreInv
    <3>3. Winner(file') = Winner(file)
      BY <3>2, TargetTiers DEF Winner
    <3>4. row'.tier = Winner(file) /\ row' \in Rows \cup {NoRow}
      <4>1. CASE OnDisk = {}
        <5>1. Winner(file) = None
          BY <4>1, WinnerIs DEF OnDisk
        <5>2. row' = NoRow
          BY <2>3, <3>1, <4>1 DEF RestoreInv
        <5> QED BY <5>1, <5>2 DEF NoRow
      <4>2. CASE OnDisk # {}
        <5>1. Winner(file) \in Tiers /\ file[Winner(file)] # NoDoc
          <6>1. Winner(file) # None
            BY <4>2, WinnerIs DEF OnDisk
          <6> QED BY <6>1, WinnerIs, TargetTiers
        <5>2. file[Winner(file)].revision \in Nat \ {0}
          BY <5>1, DocumentFields DEF TypeInv, DiskOK
        <5> QED BY <3>1, <4>2, <5>1, <5>2, RowMade DEF PutRow
      <4> QED BY <4>1, <4>2
    <3>5. OperatorOK'
      BY <2>1, <3>1 DEF OperatorOK, Phases, Restoring, Walking
    <3>6. DiskOK'
      BY <2>1, <3>1, <3>2, <3>4 DEF TypeInv, DiskOK
    <3>7. RestoreInv'
      BY <2>1, <3>1, <3>2, <3>3, <3>4
         DEF RestoreInv, Restoring, TasksDone, KBDone, LedgersDone
    <3> QED BY <2>1, <3>5, <3>6, <3>7, DownStep
  <2> QED BY <1>7, <2>2, <2>3 DEF Reindex
<1>8. CASE Check
  <2>1. OperatorOK'
    BY <1>8 DEF Check, OperatorOK, Phases, Walking
  <2> QED BY <1>8, <2>1, BackupStep DEF Check, Restoring
<1> QED BY <1>1, <1>2, <1>3, <1>4, <1>5, <1>6, <1>7, <1>8

LEMMA OperatorInit == RecoveryInit => OperatorInv
<1> SUFFICES ASSUME RecoveryInit PROVE OperatorInv
  OBVIOUS
<1>1. TypeInv /\ RecoveryInv
  BY InitType DEF RecoveryInit, Init, RecoveryInv
<1>2. NoArchive \in Archives
  BY DEF NoArchive, Archives, NoTree
<1>3. OperatorOK
  BY <1>2 DEF RecoveryInit, OperatorOK, Phases, Walking
<1>4. RestoreInv
  BY NotRestoring DEF RecoveryInit, Restoring
<1> QED BY <1>1, <1>3, <1>4 DEF OperatorInv

LEMMA OperatorStep == OperatorInv /\ [RecoveryNext]_everything => OperatorInv'
<1> SUFFICES ASSUME OperatorInv, [RecoveryNext]_everything PROVE OperatorInv'
  OBVIOUS
<1>1. CASE UNCHANGED everything
  <2>1. UNCHANGED <<vars, tasks, archive, phase, todo>>
    BY <1>1 DEF everything, operator
  <2>2. TypeInv' /\ RecoveryInv'
    BY <2>1 DEF OperatorInv, vars, TypeInv, DiskOK, LocalsOK, RecoveryInv,
                Recovering, Filled
  <2>3. OperatorOK' /\ RestoreInv'
    BY <2>1 DEF OperatorInv, vars, OperatorOK, RestoreInv
  <2> QED BY <2>2, <2>3 DEF OperatorInv
<1>2. CASE ServeKB \/ ServeTasks
  BY <1>2, ServeStep
<1>3. CASE Backup \/ List \/ Add \/ PackIndexes \/ PackLedgers \/ Killed
  BY <1>3, WalkStep
<1>4. CASE Restore \/ ReplaceTasks \/ RemoveKB \/ CopyKB \/ ReplaceIndexes
             \/ ReplaceLedgers \/ Reindex \/ Check
  BY <1>4, RestoreStep
<1> QED BY <1>1, <1>2, <1>3, <1>4 DEF RecoveryNext

LEMMA OperatorAlways == RecoverySpec => []OperatorInv
BY OperatorInit, OperatorStep, PTL DEF RecoverySpec

(* Whatever was archived of a KB that was being written, whatever has been *)
(* written since, and however many restores were killed half way: one that *)
(* comes to its end leaves the archived tasks, the archived files brought  *)
(* to the current schema and no other, and a manifest made from them.      *)
THEOREM RestoreAlwaysFaithful == RecoverySpec => RestoredAsArchived
<1>1. OperatorInv /\ [RecoveryNext]_everything =>
        [phase = "check" /\ result' # None =>
           /\ tasks = archive.tasks
           /\ \A tier \in Tiers : file[tier] = Upgraded(archive.file[tier])
           /\ row.tier = Winner(file)
           /\ "ledgers" \in archive.sections => told = archive.told]_everything
  BY DEF OperatorInv, RestoreInv, Restoring, TasksDone, KBDone, LedgersDone
<1> QED BY <1>1, OperatorAlways, PTL DEF RecoverySpec, RestoredAsArchived

(* A server that is started on what a killed restore has left, or on what  *)
(* a finished one has put there, has in its manifest what is in the files. *)
THEOREM RestoreAlwaysRecovers == RecoverySpec => RecoveryRestores
<1>1. OperatorInv /\ [RecoveryNext]_everything =>
        [~serving /\ serving' => row'.tier = Winner(file')]_vars
  <2> SUFFICES ASSUME OperatorInv, RecoveryNext, ~serving, serving'
               PROVE  row'.tier = Winner(file')
    BY DEF everything
  <2>1. Next
    BY DEF RecoveryNext, ServeKB, ServeTasks, Backup, List, Add, PackIndexes,
           PackLedgers, Restore, ReplaceTasks, RemoveKB, CopyKB, ReplaceIndexes,
           ReplaceLedgers, Reindex, Check, Killed, vars
  <2> QED BY <2>1, RecoveryEnds DEF OperatorInv
<1> QED BY <1>1, OperatorAlways, PTL DEF RecoverySpec, RecoveryRestores
-----------------------------------------------------------------------------
(* The backup.                                                             *)

Empty == \A tier \in Tiers : archive.file[tier] = NoDoc

(* As long as nothing has been archived, what the walk has passed is void, *)
(* and so the object is still ahead of it.                                 *)
BackupInv ==
  /\ owed /\ phase \in Walking => Winner(Standing) # None
  /\ owed /\ phase \in Walking /\ Empty =>
       \A tier \in Tiers \ Ahead(todo) : file[tier] = NoDoc
  /\ phase \in Walking => "indexes" \notin archive.sections
  /\ owed /\ (phase = "pack_indexes" \/ "indexes" \in archive.sections) => ~Empty

KeepsInv(t) == OperatorInv /\ SerialInv(t, FALSE) /\ BackupInv

(* A file appears by the write of a request, in its tier, and by nothing   *)
(* else: neither an undo nor a migration brings one back.                  *)
LEMMA FileAppears ==
  ASSUME NEW t, Serial(t), Inv(t, FALSE), [Next]_vars,
         NEW tier \in Tiers, file[tier] = NoDoc, file'[tier] # NoDoc
  PROVE  Write(t) /\ tier = MyTarget(t)
<1> DEFINE m == mine[t]
<1>1. file \in [Tiers -> Documents \cup {NoDoc}]
  BY DEF Inv, TypeInv, DiskOK
<1>2. ~UNCHANGED file
  OBVIOUS
<1>3. CASE Migrate(t)
  <2>1. m.at \in Tiers /\ file[m.at] # NoDoc
    BY <1>3, Completing DEF Migrate
  <2> QED BY <1>1, <1>3, <2>1 DEF Migrate, PutFile
<1>4. CASE Write(t)
  BY <1>1, <1>4 DEF Write, PutFile
<1>5. CASE Undo(t) \/ UndoUnlink(t)
  <2>1. /\ Written(m, file) /\ MyTarget(t) = Target(m.call.op)
        /\ MyTarget(t) \in Tiers /\ m.second \in Tiers \cup {None}
    BY <1>5, Wrought DEF Undo, UndoUnlink
  <2>2. CASE Undo(t)
    <3>1. m.saved # NoDoc /\ PutFile(m.second, m.saved)
      BY <1>2, <2>2 DEF Undo
    <3>2. m.second \in Tiers
      BY <2>1, <3>1 DEF Written
    <3>3. file[m.second] # NoDoc
      BY <2>1, <3>1, <3>2 DEF Written
    <3> QED BY <1>1, <3>1, <3>2, <3>3 DEF PutFile
  <2>3. CASE UndoUnlink(t)
    BY <1>1, <2>1, <2>3 DEF UndoUnlink, Unlink, PutFile
  <2> QED BY <1>5, <2>2, <2>3
<1>6. CASE UnlinkFormer(t) \/ UnlinkFirst(t)
  <2>1. PICK gone : Unlink(gone)
    BY <1>6 DEF UnlinkFormer, UnlinkFirst
  <2> QED BY <1>1, <2>1 DEF Unlink, PutFile
<1>7. CASE Crash \/ UNCHANGED vars
  BY <1>2, <1>7 DEF Crash, vars
<1>8. CASE Begin(t) \/ Read(t) \/ Upsert(t) \/ Settle(t) \/ Rebuild(t)
  BY <1>2, <1>3, <1>4, <1>5, <1>6, <1>8
     DEF Begin, Read, Fetch, Load, Resync, Answer, Upsert, Refetch, Reload,
         Save, Sync, SyncFails, Settle, Log, Rebuild, Clear, Scan, Restart,
         Recovered
<1> QED BY <1>7, <1>8, OneThread DEF Next, Inv

(* What is promoted is a candidate, and its file is there.                 *)
LEMMA PromotesCandidate ==
  ASSUME NEW t, Serial(t), Inv(t, FALSE), Write(t), mine[t].call.op = "promote"
  PROVE  file["candidate"] # NoDoc
<1>1. row.tier = Winner(file) /\ Knows("write", mine[t], row, file)
  BY Serves DEF Write, Acts
<1>2. row.tier = "candidate"
  BY <1>1 DEF Knows, Chosen, Refused
<1> QED BY <1>1, <1>2, WinnerIs

(* The services never take away what is served.                            *)
LEMMA ServedStays ==
  ASSUME NEW t, Serial(t), Inv(t, FALSE), Inv(t, FALSE)', [Next]_vars,
         Winner(Standing) # None
  PROVE  Winner(Standing') # None
<1>1. Served.tier = Winner(Standing) /\ Served'.tier = Winner(Standing')
  BY DEF Served
<1>2. CASE Served' = Served
  BY <1>1, <1>2
<1>3. CASE Knowledge!Next
  BY <1>1, <1>3 DEF Knowledge!Next, Knowledge!Create, Knowledge!Promote,
                    Knowledge!Deprecate, Knowledge!Move, None
<1> QED BY <1>2, <1>3, KnowledgeStep

LEMMA ServeBackup ==
  ASSUME NEW t, Serial(t), KeepsInv(t), ServeKB
  PROVE  BackupInv'
<1>1. /\ Inv(t, FALSE) /\ OperatorOK /\ BackupInv
      /\ file \in [Tiers -> Documents \cup {NoDoc}]
  BY DEF KeepsInv, OperatorInv, Inv, TypeInv, DiskOK
<1>2. /\ Next /\ UNCHANGED <<tasks, archive, phase, todo>>
      /\ owed' = (owed /\ ~(phase \in Walking /\ Recreates))
  BY DEF ServeKB
<1>3. Inv(t, FALSE)'
  BY <1>1, <1>2, SerialStep
<1>4. owed' /\ phase' \in Walking => Winner(Standing') # None
  BY <1>1, <1>2, <1>3, ServedStays DEF BackupInv
<1>5. ASSUME owed', phase' \in Walking, Empty',
             NEW tier \in Tiers \ Ahead(todo')
      PROVE  file'[tier] = NoDoc
  <2>1. /\ owed /\ ~Recreates /\ phase \in Walking /\ Empty
        /\ tier \notin Ahead(todo) /\ todo \in Rests
    BY <1>1, <1>2, <1>5 DEF Empty, OperatorOK
  <2>2. \A other \in Tiers \ Ahead(todo) : file[other] = NoDoc
    BY <1>1, <2>1 DEF BackupInv
  <2>3. SUFFICES ASSUME file'[tier] # NoDoc PROVE FALSE
    OBVIOUS
  <2>4. Write(t) /\ tier = MyTarget(t)
    BY <1>1, <1>2, <2>1, <2>2, <2>3, FileAppears
  <2>5. tier # "deprecated"
    BY <2>1 DEF Rests, Ahead, Tiers
  <2>6. tier # "candidate"
    <3>1. SUFFICES ASSUME tier = "candidate" PROVE FALSE
      OBVIOUS
    <3>2. mine[t].call.op = "create"
      <4>1. Placed("write", mine[t])
        BY <1>1, <2>4, OneThread DEF Inv, Write
      <4> QED BY <2>4, <3>1, <4>1, TargetTiers
             DEF MyTarget, Placed, Ready, Upserting, Writing
    <3>3. file'["candidate"] # file["candidate"]
      BY <2>1, <2>2, <2>3, <3>1
    <3>4. t \in Threads /\ pc[t] = "write"
      BY <2>4 DEF Serial, Write
    <3> QED BY <2>1, <3>2, <3>3, <3>4 DEF Recreates
  <2>7. tier # "canonical"
    <3>1. SUFFICES ASSUME tier = "canonical" PROVE FALSE
      OBVIOUS
    <3>2. mine[t].call.op = "promote"
      <4>1. Placed("write", mine[t])
        BY <1>1, <2>4, OneThread DEF Inv, Write
      <4> QED BY <2>4, <3>1, <4>1, TargetTiers
             DEF MyTarget, Placed, Ready, Upserting, Writing
    <3>3. file["candidate"] # NoDoc
      BY <1>1, <2>4, <3>2, PromotesCandidate
    <3>4. "candidate" \notin Ahead(todo)
      BY <2>1, <3>1, WalkOrderIs DEF Rests, Ahead, Tiers
    <3> QED BY <2>2, <3>3, <3>4, TargetTiers
  <2> QED BY <2>5, <2>6, <2>7, TargetTiers
<1>6. /\ phase' \in Walking => "indexes" \notin archive'.sections
      /\ owed' /\ (phase' = "pack_indexes" \/ "indexes" \in archive'.sections)
           => ~Empty'
  BY <1>1, <1>2 DEF BackupInv, Empty
<1> QED BY <1>4, <1>5, <1>6 DEF BackupInv

(* A directory without a file of the object: with nothing archived and     *)
(* nothing ahead there would be no object.                                 *)
LEMMA ListBackup ==
  ASSUME NEW t, Serial(t), KeepsInv(t), List
  PROVE  BackupInv'
<1>1. /\ Inv(t, FALSE) /\ BackupInv /\ phase = "list" /\ phase \in Walking
      /\ todo \in Rests /\ archive \in Archives
  BY DEF KeepsInv, OperatorInv, Inv, OperatorOK, List, Walking
<1>2. /\ UNCHANGED <<vars, owed>> /\ archive'.file = archive.file
      /\ archive'.sections = archive.sections \cup {Tier}
  BY <1>1 DEF List, Archives
<1>3. /\ Tier \in Tiers /\ Tail(todo) \in Rests \cup {<<>>}
      /\ Ahead(Tail(todo)) = Ahead(todo) \ {Tier}
  BY <1>1, RestIs DEF Tier
<1>4. Standing' = Standing
  BY <1>2 DEF vars, Standing, Undoable, MyTarget
<1>5. "indexes" \notin archive'.sections /\ (Empty' <=> Empty)
  BY <1>1, <1>2, <1>3, TargetTiers DEF BackupInv, Empty
<1>6. CASE file[Tier] # NoDoc
  <2>1. phase' = "add" /\ UNCHANGED todo
    BY <1>6 DEF List
  <2> QED BY <1>1, <1>2, <1>4, <1>5, <2>1 DEF BackupInv, vars, Walking
<1>7. CASE file[Tier] = NoDoc
  <2>1. /\ todo' = Tail(todo)
        /\ phase' = IF Tail(todo) = <<>> THEN "pack_indexes" ELSE "list"
    BY <1>7 DEF List, NextDirectory
  <2>2. owed /\ Empty => \A tier \in Tiers \ Ahead(todo') : file[tier] = NoDoc
    BY <1>1, <1>3, <1>7, <2>1 DEF BackupInv
  <2>3. owed /\ Tail(todo) = <<>> => ~Empty
    <3> SUFFICES ASSUME owed, Tail(todo) = <<>>, Empty PROVE FALSE
      OBVIOUS
    <3>1. \A tier \in Tiers : file[tier] = NoDoc
      BY <2>1, <2>2, WalkOrderIs
    <3>2. ~Undoable(t)
      <4> SUFFICES ASSUME Undoable(t) PROVE FALSE
        OBVIOUS
      <4>1. Written(mine[t], file) /\ Target(mine[t].call.op) \in Tiers
        BY <1>1, Wrought DEF Undoable
      <4> QED BY <3>1, <4>1 DEF Written
    <3>3. Winner(file) = None
      BY <3>1, WinnerIs
    <3>4. Standing = file
      BY <1>1, <3>2, StandingIs DEF Inv
    <3> QED BY <1>1, <3>3, <3>4 DEF BackupInv
  <2> QED BY <1>1, <1>2, <1>4, <1>5, <2>1, <2>2, <2>3 DEF BackupInv, vars, Walking
<1> QED BY <1>6, <1>7

LEMMA AddBackup ==
  ASSUME NEW t, Serial(t), KeepsInv(t), Add
  PROVE  BackupInv'
<1>1. /\ BackupInv /\ phase \in Walking /\ todo \in Rests
      /\ archive \in Archives /\ UNCHANGED <<vars, owed>>
  BY DEF KeepsInv, OperatorInv, OperatorOK, Add, Walking
<1>2. CASE file[Tier] = NoDoc
  BY <1>1, <1>2 DEF Add, BackupInv, Walking
<1>3. CASE file[Tier] # NoDoc
  <2>1. Tier \in Tiers
    BY <1>1, RestIs DEF Tier
  <2>2. archive' = [archive EXCEPT !.file[Tier] = file[Tier]] /\ NextDirectory
    BY <1>3 DEF Add
  <2>3. archive'.file[Tier] = file[Tier] /\ archive'.sections = archive.sections
    BY <1>1, <2>1, <2>2 DEF Archives
  <2>4. ~Empty'
    BY <1>3, <2>1, <2>3 DEF Empty
  <2>5. Standing' = Standing
    BY <1>1 DEF vars, Standing, Undoable, MyTarget
  <2> QED BY <1>1, <2>3, <2>4, <2>5 DEF BackupInv
<1> QED BY <1>2, <1>3

LEMMA OtherBackup ==
  ASSUME NEW t, Serial(t), KeepsInv(t),
         \/ ServeTasks \/ Backup \/ PackIndexes \/ PackLedgers \/ Killed
         \/ Restore \/ ReplaceTasks \/ RemoveKB \/ CopyKB \/ ReplaceIndexes
         \/ ReplaceLedgers \/ Reindex \/ Check
  PROVE  BackupInv'
<1>1. BackupInv /\ archive \in Archives
  BY DEF KeepsInv, OperatorInv, OperatorOK
<1>2. CASE Backup
  <2>1. /\ archive'.sections = {"tasks"} /\ phase' = "list" /\ todo' = WalkOrder
        /\ owed' = (Winner(Standing) # None) /\ UNCHANGED vars
    BY <1>2 DEF Backup, NoArchive
  <2>2. Standing' = Standing
    BY <2>1 DEF vars, Standing, Undoable, MyTarget
  <2> QED BY <2>1, <2>2, WalkOrderIs DEF BackupInv, Walking
<1>3. CASE PackIndexes
  <2>1. /\ archive'.file = archive.file /\ phase = "pack_indexes"
        /\ phase' = "pack_ledgers" /\ UNCHANGED owed
    BY <1>1, <1>3 DEF PackIndexes, Archives
  <2> QED BY <1>1, <2>1 DEF BackupInv, Empty, Walking
<1>4. CASE PackLedgers
  <2>1. /\ archive'.file = archive.file /\ phase' = "idle" /\ UNCHANGED owed
        /\ archive'.sections = archive.sections \cup {"ledgers"}
    BY <1>1, <1>4 DEF PackLedgers, Archives
  <2> QED BY <1>1, <2>1 DEF BackupInv, Empty, Walking
<1>5. CASE ServeTasks
  <2>1. UNCHANGED <<vars, archive, phase, todo, owed>>
    BY <1>5 DEF ServeTasks
  <2>2. Standing' = Standing
    BY <2>1 DEF vars, Standing, Undoable, MyTarget
  <2> QED BY <1>1, <2>1, <2>2 DEF BackupInv, Empty, vars
<1>6. CASE \/ Killed \/ Restore \/ ReplaceTasks \/ RemoveKB \/ CopyKB
           \/ ReplaceIndexes \/ ReplaceLedgers \/ Reindex \/ Check
  <2>1. /\ UNCHANGED <<archive, owed>>
        /\ phase' \notin Walking /\ phase' # "pack_indexes"
    BY <1>6 DEF Killed, Restore, ReplaceTasks, RemoveKB, CopyKB, ReplaceIndexes,
                ReplaceLedgers, Reindex, Check, Now, Walking
  <2> QED BY <1>1, <2>1 DEF BackupInv, Empty
<1> QED BY <1>2, <1>3, <1>4, <1>5, <1>6

LEMMA KeepsStep ==
  ASSUME NEW t, Serial(t), KeepsInv(t), [RecoveryNext]_everything
  PROVE  KeepsInv(t)'
<1>1. OperatorInv'
  BY OperatorStep DEF KeepsInv
<1>2. CASE ServeKB
  <2>1. Inv(t, FALSE) /\ [Next]_vars
    BY <1>2 DEF KeepsInv, OperatorInv, Inv, ServeKB
  <2>2. SerialInv(t, FALSE)'
    BY <2>1, SerialStep DEF Inv
  <2> QED BY <1>1, <1>2, <2>2, ServeBackup DEF KeepsInv
<1>3. CASE UNCHANGED everything
  <2>1. UNCHANGED vars /\ UNCHANGED <<archive, phase, todo, owed>>
    BY <1>3 DEF everything, operator
  <2>2. SerialInv(t, FALSE)'
    BY <2>1 DEF KeepsInv, SerialInv, ServingInv, vars
  <2>3. Standing' = Standing
    BY <2>1 DEF vars, Standing, Undoable, MyTarget
  <2>4. BackupInv'
    BY <2>1, <2>3 DEF KeepsInv, BackupInv, Empty, vars
  <2> QED BY <1>1, <2>2, <2>4 DEF KeepsInv
<1>4. CASE RecoveryNext /\ ~ServeKB
  <2>1. UNCHANGED vars \/ (UNCHANGED serving /\ phase \in Restoring)
    BY <1>4 DEF RecoveryNext, ServeTasks, Backup, List, Add, PackIndexes,
                PackLedgers, Restore, ReplaceTasks, RemoveKB, CopyKB,
                ReplaceIndexes, ReplaceLedgers, Reindex, Check, Killed, Now,
                Restoring
  <2>2. SerialInv(t, FALSE)'
    <3>1. CASE UNCHANGED vars
      BY <3>1 DEF KeepsInv, SerialInv, ServingInv, vars
    <3>2. CASE UNCHANGED serving /\ phase \in Restoring
      BY <3>2 DEF KeepsInv, OperatorInv, RestoreInv, SerialInv, ServingInv
    <3> QED BY <2>1, <3>1, <3>2
  <2>3. BackupInv'
    BY <1>4, ListBackup, AddBackup, OtherBackup DEF RecoveryNext
  <2> QED BY <1>1, <2>2, <2>3 DEF KeepsInv
<1> QED BY <1>2, <1>3, <1>4

(* A complete backup of a KB that was written, promoted and deprecated     *)
(* while the walk was under way, with whatever crashed or was undone, has  *)
(* the object if it was there when the walk began.                         *)
THEOREM BackupAlwaysKeeps ==
  ASSUME NEW t, Serial(t)
  PROVE  RecoverySpec => []BackupKeepsObject
<1>1. RecoveryInit => KeepsInv(t)
  <2> SUFFICES ASSUME RecoveryInit PROVE KeepsInv(t)
    OBVIOUS
  <2>1. OperatorInv
    BY OperatorInit
  <2>2. SerialInv(t, FALSE)
    BY InitSerial DEF RecoveryInit, Inv
  <2>3. BackupInv
    BY DEF RecoveryInit, NoArchive, BackupInv, Walking
  <2> QED BY <2>1, <2>2, <2>3 DEF KeepsInv
<1>2. KeepsInv(t) /\ [RecoveryNext]_everything => KeepsInv(t)'
  BY KeepsStep
<1>3. KeepsInv(t) => BackupKeepsObject
  BY DEF KeepsInv, BackupInv, BackupKeepsObject, Complete, Sections, Empty
<1> QED BY <1>1, <1>2, <1>3, PTL DEF RecoverySpec
=============================================================================
