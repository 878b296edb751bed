--------------------------- MODULE ThinKBSerialProofs ---------------------------
(***************************************************************************)
(* Theorems about a Thin KB that serves one request at a time, crashes and *)
(* failures of the database included: files, manifest and ledger agree,    *)
(* and the store implements KnowledgeBase.  Any requests but a rebuild by  *)
(* an operator, any objects found on disk whose manifest is in order.      *)
(***************************************************************************)
EXTENDS ThinKBProofs

(* The tier the row names is the one the object is served from, and the    *)
(* revision that of its document.                                          *)
InOrder(files, r) ==
  /\ r.tier = Winner(files)
  /\ r # NoRow => r.revision = files[r.tier].revision

Serial(t) ==
  /\ Threads = {t}
  /\ \A c \in Calls : c.op # "reindex"
  /\ \A seed \in Seeds : InOrder(seed.file, seed.row)

-----------------------------------------------------------------------------
(* The inductive invariant.                                                *)

(* A request that moves an object has loaded it from the tier it is in, and *)
(* may move it from there.                                                 *)
Chosen(m, tier, doc) ==
  IF m.call.op = "create"
    THEN m.first = None
    ELSE /\ m.first = tier /\ tier \in Tiers /\ ~Refused(m.call.op, tier)
         /\ m.text = doc.text

(* What a thread at a label knows of the row and the files, before it has  *)
(* written anything.                                                       *)
Knows(label, m, r, files) ==
  /\ label \in {"missing", "done"} =>
       (m.call.op \in Reads /\ m.text = None => r = NoRow)
  /\ label \in {"fetch", "load", "refetch"} => m.second = None
  /\ label = "load" =>
       /\ m.at = r.tier /\ m.first = r.tier /\ ~Refused(m.call.op, r.tier)
  /\ label \in {"refetch", "reload", "save"} => Chosen(m, r.tier, files[r.tier])
  /\ label = "refetch" /\ m.call.op = "create" => m.revision = 1
  /\ label = "reload" => m.at = r.tier
  /\ label \in {"reload", "save", "write"} => m.second = r.tier
  /\ label = "save" => m.revision = files[r.tier].revision + 1
  /\ label = "write" =>
       /\ Chosen(m, r.tier, m.saved) /\ m.revision = m.saved.revision + 1
       /\ m.saved = IF r = NoRow THEN NoDoc ELSE files[r.tier]

(* And while it completes a document of an older schema.                   *)
Completes(label, m, r, files) ==
  label \in {"migrate", "resync"} =>
    /\ r # NoRow /\ m.at = r.tier /\ files[m.at] # NoDoc
    /\ files[m.at].text = m.stale.text
    /\ files[m.at].revision = m.stale.revision
    /\ m.then # "scan" /\ Knows(m.then, m, r, files)

(* The files without what the request has written.                         *)
Former(m, files) ==
  LET target == Target(m.call.op)
  IN  [files EXCEPT ![target] = IF m.second = target THEN m.saved ELSE NoDoc]

Written(m, files) ==
  LET target == Target(m.call.op) IN
  /\ Chosen(m, m.second, m.saved) /\ m.revision = m.saved.revision + 1
  /\ files[target] # NoDoc
  /\ files[target].text = m.text /\ files[target].revision = m.revision
  /\ Winner(Former(m, files)) = m.second
  /\ m.saved = NoDoc <=> m.second = None
  /\ m.second \in Tiers \ {target} => files[m.second] = m.saved

Wrote(label, m, r, files) ==
  LET target == Target(m.call.op) IN
  /\ label \in {"sync", "undo", "undo_unlink", "unlink"} => Written(m, files)
  /\ label \in {"sync", "undo", "undo_unlink"} => r.tier = m.second
  /\ label = "undo_unlink" => m.second # target
  /\ label \in {"unlink", "unlink_first", "log"} =>
       r.tier = target /\ r.revision = files[target].revision
  /\ label \in {"unlink_first", "log"} => Winner(files) = target
  /\ label = "unlink_first" =>
       /\ m.first \in Tiers \ {target} /\ files[m.first] = NoDoc

Acts == {"sync", "undo", "undo_unlink", "unlink", "unlink_first", "log"}

ServingInv(t) ==
  serving =>
    /\ pc[t] \notin {"clear", "scan"}
    /\ pc[t] # "idle" => mine[t].call.op \notin {"reindex", "recover"}
    /\ pc[t] \notin Acts => row.tier = Winner(file)
    /\ Knows(pc[t], mine[t], row, file)
    /\ Completes(pc[t], mine[t], row, file)
    /\ Wrote(pc[t], mine[t], row, file)

(* The tier the ledger tells, and the revision the row has.                *)
LedgerInv(t) ==
  ~cut =>
    /\ pc[t] \notin Acts => told = Winner(file)
    /\ pc[t] \in {"sync", "undo", "undo_unlink"} => told = mine[t].second

RowInv(t) ==
  row # NoRow =>
    /\ file[row.tier] # NoDoc
    /\ ~cut /\ pc[t] \notin Acts => row.revision = file[row.tier].revision
    /\ ~cut /\ pc[t] \in {"sync", "undo", "undo_unlink"} =>
         row.revision = mine[t].saved.revision

(* `alone': nobody but the server writes the manifest and the ledger.      *)
SerialInv(t, alone) == ServingInv(t) /\ (alone => LedgerInv(t) /\ RowInv(t))

-----------------------------------------------------------------------------
(* The steps that preserve it.                                             *)

Inv(t, alone) == TypeInv /\ RecoveryInv /\ SerialInv(t, alone)

LEMMA OneThread ==
  ASSUME NEW t, Serial(t), TypeInv
  PROVE  /\ t \in Threads /\ \A u \in Threads : u = t
         /\ pc[t] \in PCs /\ mine[t] \in Locals /\ Placed(pc[t], mine[t])
         /\ \A label, m : Step(t, label, m) => pc'[t] = label /\ mine'[t] = m
BY LocalsFields DEF Serial, TypeInv, LocalsOK, Step

(* A server that is up makes no recovery.                                  *)
LEMMA Serves ==
  ASSUME NEW t, NEW alone \in BOOLEAN, Serial(t), Inv(t, alone),
         pc[t] # "idle",
         \/ mine[t].call # Recovery
         \/ pc[t] \notin {"clear", "scan", "migrate", "resync", "done"}
  PROVE  /\ serving /\ mine[t].call.op \notin {"reindex", "recover"}
         /\ pc[t] \notin {"clear", "scan"}
         /\ pc[t] \notin Acts => row.tier = Winner(file)
         /\ Knows(pc[t], mine[t], row, file)
         /\ Completes(pc[t], mine[t], row, file)
         /\ Wrote(pc[t], mine[t], row, file)
<1>1. t \in Threads
  BY DEF Serial
<1>2. serving
  BY <1>1 DEF Inv, RecoveryInv, Recovering
<1> QED BY <1>2 DEF Inv, SerialInv, ServingInv

(* A step before the request writes, or after it: nothing on disk changes. *)
LEMMA Moved ==
  ASSUME NEW t, NEW alone \in BOOLEAN, Serial(t), Inv(t, alone),
         serving, pc[t] \notin Acts,
         UNCHANGED <<file, row, told, serving, cut>>,
         NEW label, NEW m, pc'[t] = label, mine'[t] = m,
         label \notin Acts \cup {"clear", "scan"},
         m.call.op \notin {"reindex", "recover"},
         Knows(label, m, row, file), Completes(label, m, row, file)
  PROVE  SerialInv(t, alone)'
<1>1. Wrote(label, m, row, file)
  BY DEF Wrote, Acts
<1>2. ServingInv(t)'
  BY <1>1 DEF ServingInv, Inv, SerialInv
<1>3. alone => LedgerInv(t)' /\ RowInv(t)'
  BY DEF Inv, SerialInv, LedgerInv, RowInv, Acts
<1> QED BY <1>2, <1>3 DEF SerialInv

LEMMA IdleKnows ==
  ASSUME NEW r, NEW files
  PROVE  /\ Knows("idle", Idle, r, files) /\ Completes("idle", Idle, r, files)
         /\ Wrote("idle", Idle, r, files)
         /\ Idle.call.op \notin {"reindex", "recover"}
BY DEF Knows, Completes, Wrote, Idle, NoCall, None

LEMMA Finished ==
  ASSUME NEW t, NEW alone \in BOOLEAN, Serial(t), Inv(t, alone),
         serving, pc[t] \notin Acts, Finish(t),
         UNCHANGED <<file, row, told, serving, cut>>
  PROVE  SerialInv(t, alone)'
<1>1. pc'[t] = "idle" /\ mine'[t] = Idle
  BY OneThread DEF Finish, Inv
<1> QED BY <1>1, IdleKnows, Moved DEF Acts

LEMMA BeginSerial ==
  ASSUME NEW t, NEW alone \in BOOLEAN, Serial(t), Inv(t, alone),
         Begin(t)
  PROVE  SerialInv(t, alone)'
<1>1. PICK c \in Calls :
        Step(t, CASE c.op = "create"  -> "refetch"
                  [] c.op = "reindex" -> "clear"
                  [] OTHER            -> "fetch",
             [Idle EXCEPT !.call = c, !.text = c.text, !.revision = 1])
  BY DEF Begin
<1> DEFINE m == [Idle EXCEPT !.call = c, !.text = c.text, !.revision = 1]
<1>2. /\ c.op \in Reads \cup {"create", "promote", "deprecate"}
      /\ c.op # "recover"
  <2>1. c \in AllCalls /\ c.op # "reindex"
    BY CallsAssumption DEF Serial
  <2> QED BY <2>1, CallFields DEF Ops
<1>3. /\ m.call = c /\ m.revision = 1 /\ m.second = None /\ m.first = None
  BY DEF Idle
<1> HIDE DEF m
<1>4. serving /\ pc[t] \notin Acts /\ UNCHANGED <<file, row, told, serving, cut>>
  BY DEF Begin, Acts
<1>5. CASE c.op = "create"
  <2>1. Step(t, "refetch", m)
    BY <1>1, <1>5 DEF m
  <2>2. pc'[t] = "refetch" /\ mine'[t] = m
    BY <2>1, OneThread DEF Inv
  <2>3. Knows("refetch", m, row, file) /\ Completes("refetch", m, row, file)
    BY <1>3, <1>5 DEF Knows, Completes, Chosen
  <2> QED BY <1>2, <1>3, <1>4, <2>2, <2>3, Moved DEF Acts, Reads
<1>6. CASE c.op # "create"
  <2>1. Step(t, "fetch", m)
    BY <1>1, <1>2, <1>6 DEF m, Reads
  <2>2. pc'[t] = "fetch" /\ mine'[t] = m
    BY <2>1, OneThread DEF Inv
  <2>3. Knows("fetch", m, row, file) /\ Completes("fetch", m, row, file)
    BY <1>3 DEF Knows, Completes
  <2> QED BY <1>2, <1>3, <1>4, <2>2, <2>3, Moved DEF Acts, Reads
<1> QED BY <1>5, <1>6

(* A document was loaded that the row names.                               *)
LEMMA Continues ==
  ASSUME NEW t, NEW alone \in BOOLEAN, Serial(t), Inv(t, alone),
         serving, pc[t] \notin Acts,
         UNCHANGED <<file, row, told, serving, cut>>,
         NEW next \in {"done", "refetch", "save"}, NEW m \in Locals,
         m.call.op \notin {"reindex", "recover"},
         row # NoRow, m.at = row.tier, Knows(next, m, row, file),
         Continue(t, file[row.tier], next, m)
  PROVE  SerialInv(t, alone)'
<1> DEFINE doc == file[row.tier]
           n == [m EXCEPT !.stale = doc, !.then = next]
<1>1. doc # NoDoc
  <2>1. row.tier = Winner(file) /\ row.tier \in Tiers
    BY RowFields DEF Inv, SerialInv, ServingInv, TypeInv, DiskOK
  <2> QED BY <2>1, WinnerIs, TargetTiers
<1> HIDE DEF doc
<1>2. CASE doc.legacy
  <2>1. Step(t, "migrate", n)
    BY <1>2 DEF Continue, doc
  <2>2. /\ n.at = m.at /\ n.stale = doc /\ n.then = next
        /\ n.call = m.call /\ n.text = m.text /\ n.revision = m.revision
        /\ n.first = m.first /\ n.second = m.second /\ n.saved = m.saved
    BY DEF Locals
  <2> HIDE DEF n
  <2>3. pc'[t] = "migrate" /\ mine'[t] = n
    BY <2>1, OneThread DEF Inv
  <2>4. Knows(next, n, row, file)
    BY <2>2 DEF Knows, Chosen
  <2>5. Completes("migrate", n, row, file)
    BY <1>1, <2>2, <2>4 DEF Completes, doc
  <2>6. Knows("migrate", n, row, file)
    BY DEF Knows
  <2> QED BY <2>2, <2>3, <2>5, <2>6, Moved DEF Acts
<1>3. CASE ~doc.legacy
  <2>1. Step(t, next, m)
    BY <1>3 DEF Continue, doc
  <2>2. pc'[t] = next /\ mine'[t] = m
    BY <2>1, OneThread DEF Inv
  <2>3. Completes(next, m, row, file)
    BY DEF Completes
  <2> QED BY <2>2, <2>3, Moved DEF Acts
<1> QED BY <1>2, <1>3

LEMMA FetchSerial ==
  ASSUME NEW t, NEW alone \in BOOLEAN, Serial(t), Inv(t, alone),
         Fetch(t) \/ Refetch(t) \/ Answer(t)
  PROVE  SerialInv(t, alone)'
<1> DEFINE m == mine[t]
<1>0. m \in Locals /\ Placed(pc[t], m) /\ row \in Rows \cup {NoRow}
  BY OneThread DEF Inv, TypeInv, DiskOK
<1>1. /\ serving /\ pc[t] \notin Acts /\ m.call.op \notin {"reindex", "recover"}
      /\ row.tier = Winner(file) /\ Knows(pc[t], m, row, file)
      /\ UNCHANGED <<file, row, told, serving, cut>>
  BY Serves DEF Fetch, Refetch, Answer, Acts
<1>2. CASE Fetch(t)
  <2>1. CASE row = NoRow
    <3> DEFINE label == IF m.call.op \in {"related", "search"} THEN "done"
                                                              ELSE "missing"
    <3>1. label \in {"done", "missing"} /\ Goto(t, label)
      BY <1>2, <2>1 DEF Fetch, Unlisted
    <3> HIDE DEF label
    <3>2. pc'[t] = label /\ mine'[t] = m
      BY <3>1, OneThread DEF Goto, Inv
    <3>3. Knows(label, m, row, file) /\ Completes(label, m, row, file)
      BY <2>1, <3>1 DEF Knows, Completes
    <3> QED BY <1>1, <3>1, <3>2, <3>3, Moved DEF Acts
  <2>2. CASE row # NoRow /\ Refused(m.call.op, row.tier)
    BY <1>1, <1>2, <2>2, Finished DEF Fetch
  <2>3. CASE row # NoRow /\ ~Refused(m.call.op, row.tier)
    <3> DEFINE n == [m EXCEPT !.first = row.tier, !.at = row.tier]
    <3>1. /\ n.first = row.tier /\ n.at = row.tier /\ n.call = m.call
          /\ n.second = m.second
      BY <1>0 DEF Locals
    <3>2. Step(t, "load", n)
      BY <1>2, <2>3 DEF Fetch
    <3> HIDE DEF n
    <3>3. pc'[t] = "load" /\ mine'[t] = n
      BY <3>2, OneThread DEF Inv
    <3>4. m.second = None
      BY <1>1, <1>2 DEF Fetch, Knows
    <3>5. Knows("load", n, row, file) /\ Completes("load", n, row, file)
      BY <2>3, <3>1, <3>4 DEF Knows, Completes
    <3> QED BY <1>1, <3>1, <3>3, <3>5, Moved DEF Acts
  <2> QED BY <2>1, <2>2, <2>3
<1>3. CASE Refetch(t)
  <2>1. /\ Chosen(m, row.tier, file[row.tier]) /\ m.second = None
        /\ m.call.op = "create" => m.revision = 1
        /\ m.saved = NoDoc
    BY <1>0, <1>1, <1>3 DEF Refetch, Knows, Placed, Ready, Writing
  <2>2. CASE row = NoRow
    <3>1. m.call.op = "create"
      BY <1>0, <2>1, <2>2, RowFields, TargetTiers DEF Chosen
    <3>2. pc'[t] = "write" /\ mine'[t] = m
      BY <1>3, <2>2, OneThread DEF Refetch, Goto, Inv
    <3>3. Knows("write", m, row, file)
      BY <2>1, <2>2, <3>1 DEF Knows, Chosen, NoRow, NoDoc
    <3>4. Completes("write", m, row, file)
      BY DEF Completes
    <3> QED BY <1>1, <3>2, <3>3, <3>4, Moved DEF Acts
  <2>3. CASE row # NoRow
    <3> DEFINE n == [m EXCEPT !.second = row.tier, !.at = row.tier]
    <3>1. /\ n.second = row.tier /\ n.at = row.tier /\ n.call = m.call
          /\ n.first = m.first /\ n.text = m.text
      BY <1>0 DEF Locals
    <3>2. Step(t, "reload", n)
      BY <1>3, <2>3 DEF Refetch
    <3> HIDE DEF n
    <3>3. pc'[t] = "reload" /\ mine'[t] = n
      BY <3>2, OneThread DEF Inv
    <3>4. Knows("reload", n, row, file) /\ Completes("reload", n, row, file)
      BY <2>1, <3>1 DEF Knows, Completes, Chosen
    <3> QED BY <1>1, <3>1, <3>3, <3>4, Moved DEF Acts
  <2> QED BY <2>2, <2>3
<1>4. CASE Answer(t)
  BY <1>1, <1>4, Finished DEF Answer
<1> QED BY <1>2, <1>3, <1>4

LEMMA LoadSerial ==
  ASSUME NEW t, NEW alone \in BOOLEAN, Serial(t), Inv(t, alone),
         Load(t) \/ Reload(t) \/ Save(t)
  PROVE  SerialInv(t, alone)'
<1> DEFINE m == mine[t]
           doc == file[row.tier]
<1>0. m \in Locals /\ Placed(pc[t], m) /\ row \in Rows \cup {NoRow}
  BY OneThread DEF Inv, TypeInv, DiskOK
<1>1. /\ serving /\ pc[t] \notin Acts /\ m.call.op \notin {"reindex", "recover"}
      /\ row.tier = Winner(file) /\ Knows(pc[t], m, row, file)
      /\ UNCHANGED <<file, row, told, serving, cut>>
  BY Serves DEF Load, Reload, Save, Acts
<1>2. row # NoRow /\ row.tier \in Tiers
  <2>1. row.tier \in Tiers
    BY <1>0, <1>1 DEF Load, Reload, Save, Knows, Placed, Ready
  <2> QED BY <1>0, <2>1, RowFields
<1>3. doc # NoDoc
  BY <1>1, <1>2, WinnerIs, TargetTiers
<1>4. doc.text # None /\ doc.text \in Texts /\ doc.revision \in Nat
  BY <1>2, <1>3, DocumentFields DEF Inv, TypeInv, DiskOK
<1>5. CASE Load(t)
  <2> DEFINE n == [m EXCEPT !.text = doc.text, !.revision = doc.revision]
             next == IF m.call.op \in Reads THEN "done" ELSE "refetch"
  <2>1. /\ m.at = row.tier /\ m.first = row.tier /\ m.second = None
        /\ ~Refused(m.call.op, row.tier)
        /\ m.call.op \in Reads \cup {"promote", "deprecate"}
    BY <1>0, <1>1, <1>5 DEF Load, Knows, Placed, Ready
  <2>2. Continue(t, doc, next, n)
    BY <1>3, <1>5, <2>1 DEF Load
  <2> HIDE DEF doc
  <2>3. /\ n \in Locals /\ n.at = m.at /\ n.call = m.call /\ n.first = m.first
        /\ n.second = m.second /\ n.text = doc.text
    BY <1>0, <1>4 DEF Locals
  <2>4. next \in {"done", "refetch", "save"}
    OBVIOUS
  <2>5. Knows(next, n, row, file)
    <3>1. m.call.op \in Reads => next = "done"
      OBVIOUS
    <3>2. m.call.op \notin Reads => next = "refetch" /\ m.call.op # "create"
      BY <2>1 DEF Reads
    <3>3. n.text = file[row.tier].text /\ n.text # None
      BY <1>4, <2>3 DEF doc
    <3> HIDE DEF n, next
    <3> QED BY <1>2, <2>1, <2>3, <2>4, <3>1, <3>2, <3>3 DEF Knows, Chosen
  <2> HIDE DEF n, next
  <2> QED BY <1>1, <1>2, <2>1, <2>2, <2>3, <2>4, <2>5, Continues DEF doc
<1>6. CASE Reload(t)
  <2> DEFINE n == [m EXCEPT !.revision = doc.revision + 1]
  <2>1. /\ m.at = row.tier /\ m.second = row.tier
        /\ Chosen(m, row.tier, doc)
    BY <1>1, <1>6 DEF Reload, Knows
  <2>2. Continue(t, doc, "save", n)
    BY <1>3, <1>6, <2>1 DEF Reload
  <2> HIDE DEF doc
  <2>3. /\ n \in Locals /\ n.at = m.at /\ n.call = m.call /\ n.first = m.first
        /\ n.second = m.second /\ n.text = m.text
        /\ n.revision = doc.revision + 1
    BY <1>0, <1>4 DEF Locals
  <2> HIDE DEF n
  <2>4. Knows("save", n, row, file)
    BY <2>1, <2>3 DEF Knows, Chosen, doc
  <2> QED BY <1>1, <1>2, <2>1, <2>2, <2>3, <2>4, Continues DEF doc
<1>7. CASE Save(t)
  <2> DEFINE n == [m EXCEPT !.saved = file[m.second]]
  <2>1. /\ Chosen(m, row.tier, doc) /\ m.second = row.tier
        /\ m.revision = doc.revision + 1
    BY <1>1, <1>7 DEF Save, Knows
  <2>2. Step(t, "write", n)
    BY <1>7 DEF Save
  <2>3. /\ n.saved = doc /\ n.call = m.call /\ n.first = m.first
        /\ n.second = m.second /\ n.text = m.text /\ n.revision = m.revision
    BY <1>0, <2>1 DEF Locals
  <2> HIDE DEF n
  <2>4. pc'[t] = "write" /\ mine'[t] = n
    BY <2>2, OneThread DEF Inv
  <2>5. Knows("write", n, row, file) /\ Completes("write", n, row, file)
    BY <1>2, <2>1, <2>3 DEF Knows, Completes, Chosen
  <2> QED BY <1>1, <2>3, <2>4, <2>5, Moved DEF Acts
<1> QED BY <1>5, <1>6, <1>7

(* The document a thread completes is the one on disk, of the tier the row *)
(* names unless the manifest is being rebuilt.                             *)
LEMMA Completing ==
  ASSUME NEW t, NEW alone \in BOOLEAN, Serial(t), Inv(t, alone),
         pc[t] \in {"migrate", "resync"}
  PROVE  LET m == mine[t] IN
         /\ m.at \in Tiers /\ m.stale \in Documents /\ file[m.at] # NoDoc
         /\ file[m.at].text = m.stale.text
         /\ file[m.at].revision = m.stale.revision
         /\ serving => /\ m.at = row.tier /\ row # NoRow
                       /\ m.call.op \notin {"reindex", "recover"}
                       /\ row.tier = Winner(file)
                       /\ m.then \in {"done", "refetch", "save"}
                       /\ Knows(m.then, m, row, file)
         /\ ~serving => m.call = Recovery
<1>1. t \in Threads /\ Placed(pc[t], mine[t])
  BY OneThread DEF Inv
<1>2. CASE serving
  BY <1>1, <1>2 DEF Inv, SerialInv, ServingInv, Completes, Placed, Acts
<1>3. CASE ~serving
  BY <1>1, <1>3 DEF Inv, RecoveryInv, Recovering, Placed
<1> QED BY <1>2, <1>3

LEMMA MigrateSerial ==
  ASSUME NEW t, NEW alone \in BOOLEAN, Serial(t), Inv(t, alone),
         Migrate(t)
  PROVE  SerialInv(t, alone)'
<1> DEFINE m == mine[t]
           new == [m.stale EXCEPT !.legacy = FALSE]
<1>1. pc[t] = "migrate" /\ PutFile(m.at, new) /\ UNCHANGED <<row, told, serving, cut>>
  BY DEF Migrate
<1>2. /\ m.at \in Tiers /\ m.stale \in Documents /\ file[m.at] # NoDoc
      /\ file[m.at].text = m.stale.text
      /\ file[m.at].revision = m.stale.revision
  BY <1>1, Completing
<1>3. /\ new \in Documents /\ new # NoDoc /\ new.text = m.stale.text
      /\ new.revision = m.stale.revision
  BY <1>2, DocumentMigrated
<1> HIDE DEF new
<1>4. \A tier \in Tiers : /\ file'[tier] = NoDoc <=> file[tier] = NoDoc
                          /\ file'[tier].text = file[tier].text
                          /\ file'[tier].revision = file[tier].revision
  BY <1>1, <1>2, <1>3, FilePut DEF Inv, TypeInv
<1>5. Winner(file') = Winner(file)
  BY <1>4, TargetTiers DEF Winner
<1>6. pc'[t] = "resync" /\ mine'[t] = m
  BY OneThread DEF Migrate, Goto, Inv
<1>7. row # NoRow => row.tier \in Tiers
  BY RowFields DEF Inv, TypeInv, DiskOK
<1>8. alone => LedgerInv(t)'
  BY <1>1, <1>5, <1>6 DEF Inv, SerialInv, LedgerInv, Acts
<1>9. alone => RowInv(t)'
  BY <1>1, <1>4, <1>6, <1>7 DEF Inv, SerialInv, RowInv, Acts
<1>10. ServingInv(t)'
  <2>1. CASE ~serving
    BY <1>1, <2>1 DEF ServingInv
  <2>2. CASE serving
    <3>1. /\ m.at = row.tier /\ row # NoRow
          /\ m.call.op \notin {"reindex", "recover"}
          /\ row.tier = Winner(file)
          /\ m.then \in {"done", "refetch", "save"}
          /\ Knows(m.then, m, row, file)
      BY <1>1, <2>2, Completing
    <3>2. Knows(m.then, m, row, file')
      BY <1>4, <1>7, <3>1 DEF Knows, Chosen
    <3>3. Completes("resync", m, row, file')
      BY <1>2, <1>4, <3>1, <3>2 DEF Completes
    <3>4. Knows("resync", m, row, file') /\ Wrote("resync", m, row, file')
      BY DEF Knows, Wrote
    <3> QED BY <1>1, <1>5, <1>6, <3>1, <3>3, <3>4 DEF ServingInv
  <2> QED BY <2>1, <2>2
<1> QED BY <1>8, <1>9, <1>10 DEF SerialInv

LEMMA ResyncSerial ==
  ASSUME NEW t, NEW alone \in BOOLEAN, Serial(t), Inv(t, alone),
         Resync(t)
  PROVE  SerialInv(t, alone)'
<1> DEFINE m == mine[t]
           n == [m EXCEPT !.stale = NoDoc, !.then = None]
<1>1. /\ pc[t] = "resync" /\ UNCHANGED <<file, told, serving, cut>>
      /\ row' = [tier |-> m.at, revision |-> m.stale.revision]
      /\ Step(t, m.then, n)
  BY DEF Resync, PutRow
<1>2. /\ m \in Locals /\ m.at \in Tiers /\ m.stale \in Documents
      /\ file[m.at] # NoDoc /\ file[m.at].revision = m.stale.revision
      /\ m.then \in {"done", "refetch", "save", "scan"}
  BY <1>1, Completing, OneThread DEF Inv, Placed
<1>3. row'.tier = m.at /\ row'.revision = m.stale.revision /\ row' # NoRow
  BY <1>1, <1>2, TargetTiers DEF NoRow
<1>4. /\ n.call = m.call /\ n.text = m.text /\ n.revision = m.revision
      /\ n.first = m.first /\ n.second = m.second /\ n.saved = m.saved
      /\ n.at = m.at
  BY <1>2 DEF Locals
<1> HIDE DEF n
<1>5. pc'[t] = m.then /\ mine'[t] = n
  BY <1>1, OneThread DEF Inv
<1>6. alone => LedgerInv(t)'
  BY <1>1, <1>2, <1>5 DEF Inv, SerialInv, LedgerInv, Acts
<1>7. alone => RowInv(t)'
  BY <1>1, <1>2, <1>3, <1>5 DEF RowInv, Acts
<1>8. ServingInv(t)'
  <2>1. CASE ~serving
    BY <1>1, <2>1 DEF ServingInv
  <2>2. CASE serving
    <3>1. /\ m.at = row.tier /\ row # NoRow
          /\ m.call.op \notin {"reindex", "recover"}
          /\ row.tier = Winner(file)
          /\ m.then \in {"done", "refetch", "save"}
          /\ Knows(m.then, m, row, file)
      BY <1>1, <2>2, Completing
    <3>2. Knows(m.then, n, row', file)
      BY <1>3, <1>4, <3>1 DEF Knows, Chosen
    <3>3. Completes(m.then, n, row', file) /\ Wrote(m.then, n, row', file)
      BY <3>1 DEF Completes, Wrote
    <3> QED BY <1>1, <1>3, <1>4, <1>5, <3>1, <3>2, <3>3 DEF ServingInv
  <2> QED BY <2>1, <2>2
<1> QED BY <1>6, <1>7, <1>8 DEF SerialInv

LEMMA RebuildSerial ==
  ASSUME NEW t, NEW alone \in BOOLEAN, Serial(t), Inv(t, alone),
         Rebuild(t)
  PROVE  SerialInv(t, alone)'
<1>1. t \in Threads
  BY DEF Serial
<1>2. ~serving /\ pc[t] \notin Acts
  BY <1>1 DEF Rebuild, Clear, Scan, Restart, Recovered, Inv, SerialInv,
              ServingInv, Recovery, Acts
<1>3. UNCHANGED <<file, told, cut>>
  BY DEF Rebuild, Clear, Scan, Restart, Recovered
<1>4. pc'[t] \notin Acts
  <2>1. CASE Clear(t) \/ Recovered(t)
    <3>1. pc'[t] \in {"scan", "idle"}
      BY <2>1, OneThread DEF Clear, Recovered, Finish, Inv
    <3> QED BY <3>1 DEF Acts
  <2>2. CASE Scan(t)
    <3>1. Recovering(t)
      BY <1>1, <1>2, <2>2 DEF Inv, RecoveryInv, Scan
    <3>2. Recovering(t)'
      BY <1>1, <2>2, <3>1, RecoveryScan DEF Inv
    <3> QED BY <3>2 DEF Recovering, Acts
  <2>3. CASE Restart(t)
    <3>1. pc'[t] \in {"clear", "idle"}
      BY <1>1, <2>3, OneThread DEF Restart, Inv
    <3> QED BY <3>1 DEF Acts
  <2> QED BY <2>1, <2>2, <2>3 DEF Rebuild
<1>5. alone => LedgerInv(t)'
  BY <1>2, <1>3, <1>4 DEF Inv, SerialInv, LedgerInv, Acts
<1>6. alone => RowInv(t)'
  <2>1. row' = row \/ row' = NoRow
    BY DEF Rebuild, Clear, Scan, Restart, Recovered
  <2> QED BY <1>2, <1>3, <1>4, <2>1 DEF Inv, SerialInv, RowInv, Acts
<1>7. ServingInv(t)'
  <2>1. CASE ~serving'
    BY <2>1 DEF ServingInv
  <2>2. CASE serving'
    <3>1. row'.tier = Winner(file')
      <4>1. [Next]_vars
        BY <1>1 DEF Next
      <4> QED BY <1>2, <2>2, <4>1, RecoveryEnds DEF Inv
    <3>2. pc'[t] = "idle"
      <4>1. CASE Recovered(t)
        BY <4>1, OneThread DEF Recovered, Finish, Inv
      <4>2. CASE Restart(t)
        BY <1>1, <1>2, <2>2, <4>2 DEF Restart
      <4> QED BY <1>2, <2>2, <4>1, <4>2 DEF Rebuild, Clear, Scan
    <3> QED BY <3>1, <3>2 DEF ServingInv, Knows, Completes, Wrote
  <2> QED BY <2>1, <2>2
<1> QED BY <1>5, <1>6, <1>7 DEF SerialInv

LEMMA CrashSerial ==
  ASSUME NEW t, NEW alone \in BOOLEAN, Serial(t), Inv(t, alone),
         Crash
  PROVE  SerialInv(t, alone)'
<1>1. t \in Threads
  BY DEF Serial
<1>2. /\ ~serving' /\ pc'[t] = "idle" /\ UNCHANGED <<file, row, told>>
      /\ cut' = (cut \/ \E u \in Threads : Acting(u))
  BY <1>1 DEF Crash
<1>3. ~cut' => ~cut /\ pc[t] \notin Acts
  BY <1>1, <1>2 DEF Acting, Acts
<1>4. ServingInv(t)'
  BY <1>2 DEF ServingInv
<1>5. alone => LedgerInv(t)'
  BY <1>2, <1>3 DEF Inv, SerialInv, LedgerInv, Acts
<1>6. alone => RowInv(t)'
  BY <1>2, <1>3 DEF Inv, SerialInv, RowInv, Acts
<1> QED BY <1>4, <1>5, <1>6 DEF SerialInv

LEMMA InitSerial ==
  ASSUME NEW t, NEW alone \in BOOLEAN, Serial(t), Init
  PROVE  Inv(t, alone)
<1>1. PICK seed \in Seeds : file = seed.file /\ row = seed.row
  BY DEF Init
<1>2. InOrder(file, row)
  BY <1>1 DEF Serial
<1>3. TypeInv /\ RecoveryInv
  BY InitType DEF Init, RecoveryInv
<1>4. /\ pc[t] = "idle" /\ told = row.tier /\ row.tier = Winner(file)
      /\ row # NoRow => row.revision = file[row.tier].revision
  BY <1>2 DEF Init, Serial, InOrder
<1>5. row # NoRow => file[row.tier] # NoDoc
  <2>1. row # NoRow => row.tier \in Tiers
    BY <1>3, RowFields DEF TypeInv, DiskOK
  <2> QED BY <1>4, <2>1, WinnerIs, TargetTiers
<1>6. SerialInv(t, alone)
  BY <1>4, <1>5 DEF SerialInv, ServingInv, LedgerInv, RowInv, Knows,
                    Completes, Wrote, Acts
<1> QED BY <1>3, <1>6 DEF Inv

LEMMA FormerFields ==
  ASSUME NEW m, NEW files \in [Tiers -> Documents \cup {NoDoc}], NEW tier \in Tiers
  PROVE  Former(m, files)[tier] =
           IF tier = Target(m.call.op)
             THEN IF m.second = tier THEN m.saved ELSE NoDoc
             ELSE files[tier]
BY DEF Former

LEMMA SameWinner ==
  ASSUME NEW f, NEW g, \A tier \in Tiers : f[tier] = NoDoc <=> g[tier] = NoDoc
  PROVE  Winner(f) = Winner(g)
BY TargetTiers DEF Winner

LEMMA WriteSerial ==
  ASSUME NEW t, NEW alone \in BOOLEAN, Serial(t), Inv(t, alone),
         Write(t)
  PROVE  SerialInv(t, alone)'
<1> DEFINE m == mine[t]
           target == MyTarget(t)
           new == [text |-> m.text, revision |-> m.revision, legacy |-> FALSE]
<1>0. /\ m \in Locals /\ Placed("write", m) /\ row \in Rows \cup {NoRow}
      /\ target \in Tiers /\ m.revision \in Nat
      /\ file \in [Tiers -> Documents \cup {NoDoc}]
  BY OneThread, LocalsFields
     DEF Inv, TypeInv, DiskOK, Write, Upserting, Writing
<1>1. /\ serving /\ pc[t] = "write" /\ m.call.op \notin {"reindex", "recover"}
      /\ row.tier = Winner(file) /\ Knows("write", m, row, file)
  BY Serves DEF Write, Acts
<1>2. /\ m.second = row.tier /\ Chosen(m, m.second, m.saved)
      /\ m.revision = m.saved.revision + 1
      /\ row = NoRow => m.saved = NoDoc
      /\ row # NoRow => m.saved = file[row.tier]
  BY <1>1 DEF Knows
<1>3. /\ row # NoRow => row.tier \in Tiers /\ m.saved # NoDoc
      /\ row = NoRow <=> m.second = None
  <2>1. /\ row # NoRow => row.tier \in Tiers
        /\ row = NoRow <=> row.tier = None
    BY <1>0, RowFields
  <2>2. row # NoRow => file[row.tier] # NoDoc
    BY <1>1, <2>1, WinnerIs, TargetTiers
  <2> QED BY <1>2, <2>1, <2>2
<1>4. new \in Documents /\ new # NoDoc
  BY <1>0, DocumentMade DEF Placed, Ready, Upserting, Writing
<1>5. PutFile(target, new) /\ UNCHANGED <<row, told, serving, cut>>
  BY DEF Write
<1>6. new.text = m.text /\ new.revision = m.revision
  OBVIOUS
<1> HIDE DEF new
<1>7. /\ file'[target] = new
      /\ \A other \in Tiers \ {target} : file'[other] = file[other]
      /\ file' \in [Tiers -> Documents \cup {NoDoc}]
  BY <1>0, <1>4, <1>5, FilePut DEF Inv, TypeInv
<1>8. pc'[t] = "sync" /\ mine'[t] = m
  BY OneThread DEF Write, Goto, Inv
<1>9. Written(m, file')
  <2>1. Winner(Former(m, file')) = m.second
    <3> DEFINE f == Former(m, file')
    <3>1. /\ f[target] = IF m.second = target THEN m.saved ELSE NoDoc
          /\ \A other \in Tiers \ {target} : f[other] = file[other]
      BY <1>0, <1>7, FormerFields DEF MyTarget
    <3> HIDE DEF f
    <3>2. CASE m.second = target
      <4>1. f[target] = file[target]
        BY <1>0, <1>2, <1>3, <3>1, <3>2, TargetTiers
      <4> QED BY <1>1, <1>2, <3>1, <4>1, SameWinner DEF f
    <3>3. CASE m.second # target
      <4>1. Winner(file) # target /\ f[target] = NoDoc
        BY <1>1, <1>2, <3>1, <3>3
      <4> QED BY <1>0, <1>1, <1>2, <3>1, <4>1, WinnerIs, TargetTiers DEF f
    <3> QED BY <3>2, <3>3
  <2>2. m.saved = NoDoc <=> m.second = None
    BY <1>2, <1>3
  <2>3. m.second \in Tiers \ {target} => file'[m.second] = m.saved
    BY <1>2, <1>3, <1>7, TargetTiers
  <2> QED BY <1>2, <1>4, <1>6, <1>7, <2>1, <2>2, <2>3 DEF Written, MyTarget
<1>10. Wrote("sync", m, row, file')
  BY <1>2, <1>9 DEF Wrote
<1>11. ServingInv(t)'
  <2>1. Knows("sync", m, row, file') /\ Completes("sync", m, row, file')
    BY DEF Knows, Completes
  <2> QED BY <1>1, <1>5, <1>8, <1>10, <2>1 DEF ServingInv, Acts
<1>12. alone => LedgerInv(t)'
  BY <1>1, <1>2, <1>5, <1>8 DEF Inv, SerialInv, LedgerInv, Acts
<1>13. alone => RowInv(t)'
  <2>1. row # NoRow => file'[row.tier] # NoDoc
    BY <1>2, <1>3, <1>4, <1>7
  <2>2. alone /\ row # NoRow /\ ~cut => row.revision = m.saved.revision
    BY <1>1, <1>2 DEF Inv, SerialInv, RowInv, Acts
  <2> QED BY <1>5, <1>8, <2>1, <2>2 DEF RowInv, Acts
<1> QED BY <1>11, <1>12, <1>13 DEF SerialInv

(* What is known of a request that has written its document.               *)
LEMMA Wrought ==
  ASSUME NEW t, NEW alone \in BOOLEAN, Serial(t), Inv(t, alone),
         pc[t] \in {"sync", "undo", "undo_unlink", "unlink"}
  PROVE  LET m == mine[t]
             target == MyTarget(t)
         IN  /\ serving /\ m.call.op \in {"create", "promote", "deprecate"}
             /\ m \in Locals /\ target \in Tiers /\ target = Target(m.call.op)
             /\ m.second \in Tiers \cup {None}
             /\ file \in [Tiers -> Documents \cup {NoDoc}]
             /\ row \in Rows \cup {NoRow}
             /\ Written(m, file)
             /\ pc[t] # "unlink" => row.tier = m.second
             /\ pc[t] = "undo_unlink" => m.second # target
             /\ pc[t] = "unlink" =>
                  row.tier = target /\ row.revision = file[target].revision
<1>1. /\ mine[t] \in Locals /\ Placed(pc[t], mine[t])
      /\ file \in [Tiers -> Documents \cup {NoDoc}]
      /\ row \in Rows \cup {NoRow}
      /\ MyTarget(t) \in Tiers /\ mine[t].second \in Tiers \cup {None}
  BY OneThread, LocalsFields DEF Inv, TypeInv, DiskOK, Upserting, Writing
<1>2. mine[t].call.op \in {"create", "promote", "deprecate"}
  BY <1>1 DEF Placed, Ready, Upserting, Writing
<1>3. serving /\ Wrote(pc[t], mine[t], row, file)
  BY Serves
<1> QED BY <1>1, <1>2, <1>3 DEF Wrote, MyTarget

LEMMA SyncSerial ==
  ASSUME NEW t, NEW alone \in BOOLEAN, Serial(t), Inv(t, alone),
         Sync(t)
  PROVE  SerialInv(t, alone)'
<1> DEFINE m == mine[t]
           target == MyTarget(t)
<1>1. /\ serving /\ m.call.op \in {"create", "promote", "deprecate"}
      /\ target \in Tiers /\ target = Target(m.call.op) /\ Written(m, file)
  BY Wrought DEF Sync
<1>2. /\ row'.tier = target /\ row'.revision = m.revision
      /\ UNCHANGED <<file, told, serving, cut>>
  BY DEF Sync, PutRow
<1>3. pc'[t] = "unlink" /\ mine'[t] = m
  BY OneThread DEF Sync, Goto, Inv
<1>4. Wrote("unlink", m, row', file)
  BY <1>1, <1>2 DEF Wrote, Written
<1>5. Knows("unlink", m, row', file) /\ Completes("unlink", m, row', file)
  BY DEF Knows, Completes
<1>6. ServingInv(t)'
  BY <1>1, <1>2, <1>3, <1>4, <1>5 DEF ServingInv, Acts
<1>7. alone => LedgerInv(t)' /\ RowInv(t)'
  BY <1>1, <1>2, <1>3 DEF LedgerInv, RowInv, Acts, Written
<1> QED BY <1>6, <1>7 DEF SerialInv

LEMMA SyncFailsSerial ==
  ASSUME NEW t, NEW alone \in BOOLEAN, Serial(t), Inv(t, alone),
         SyncFails(t)
  PROVE  SerialInv(t, alone)'
<1> DEFINE m == mine[t]
<1>1. UNCHANGED <<file, row, told, serving, cut>>
  BY DEF SyncFails
<1>2. CASE pc[t] = "sync" /\ Goto(t, "undo")
  <2>1. /\ serving /\ m.call.op \in {"create", "promote", "deprecate"}
        /\ Written(m, file) /\ row.tier = m.second
    BY <1>2, Wrought
  <2>2. pc'[t] = "undo" /\ mine'[t] = m
    BY <1>2, OneThread DEF Goto, Inv
  <2>3. Wrote("undo", m, row, file)
    BY <2>1 DEF Wrote
  <2>4. Knows("undo", m, row, file) /\ Completes("undo", m, row, file)
    BY DEF Knows, Completes
  <2>5. ServingInv(t)'
    BY <1>1, <2>1, <2>2, <2>3, <2>4 DEF ServingInv, Acts
  <2>6. alone => LedgerInv(t)' /\ RowInv(t)'
    BY <1>1, <1>2, <2>2 DEF Inv, SerialInv, LedgerInv, RowInv, Acts
  <2> QED BY <2>5, <2>6 DEF SerialInv
<1>3. CASE pc[t] = "resync" /\ m.call # Recovery /\ Finish(t)
  <2>1. serving
    BY <1>3, Completing
  <2> QED BY <1>1, <1>3, <2>1, Finished DEF Acts
<1> QED BY <1>2, <1>3 DEF SyncFails

(* An undo that has come to its end has left the files as they were.       *)
LEMMA Undone ==
  ASSUME NEW t, NEW alone \in BOOLEAN, Serial(t), Inv(t, alone),
         pc[t] \in {"sync", "undo", "undo_unlink"},
         Finish(t), UNCHANGED <<row, told, serving, cut>>,
         \A tier \in Tiers : file'[tier] = Former(mine[t], file)[tier]
  PROVE  SerialInv(t, alone)'
<1> DEFINE m == mine[t]
           former == Former(m, file)
<1>1. /\ Written(m, file) /\ row.tier = m.second /\ serving
      /\ file \in [Tiers -> Documents \cup {NoDoc}] /\ row \in Rows \cup {NoRow}
  BY Wrought
<1>2. Winner(former) = m.second
  BY <1>1 DEF Written
<1>3. Winner(file') = m.second
  <2> HIDE DEF former
  <2>1. \A tier \in Tiers : file'[tier] = former[tier]
    BY DEF former
  <2> QED BY <1>2, <2>1, SameWinner
<1>4. pc'[t] = "idle" /\ mine'[t] = Idle
  BY OneThread DEF Finish, Inv
<1>5. ServingInv(t)'
  BY <1>1, <1>3, <1>4, IdleKnows DEF ServingInv, Knows, Completes, Wrote
<1>6. alone => LedgerInv(t)'
  BY <1>3, <1>4 DEF Inv, SerialInv, LedgerInv, Acts
<1>7. alone => RowInv(t)'
  <2>1. row # NoRow => /\ row.tier \in Tiers /\ m.saved # NoDoc
                       /\ file'[row.tier] = m.saved
    <3>1. row # NoRow => row.tier \in Tiers /\ row.tier # None
      BY <1>1, RowFields, TargetTiers
    <3>2. row # NoRow => m.saved # NoDoc
      BY <1>1, <3>1 DEF Written
    <3>3. row # NoRow => Former(m, file)[row.tier] = m.saved
      <4> SUFFICES ASSUME row # NoRow PROVE Former(m, file)[row.tier] = m.saved
        OBVIOUS
      <4>1. CASE m.second = Target(m.call.op)
        BY <1>1, <3>1, <4>1, FormerFields
      <4>2. CASE m.second # Target(m.call.op)
        BY <1>1, <3>1, <4>2, FormerFields DEF Written
      <4> QED BY <4>1, <4>2
    <3> QED BY <3>1, <3>2, <3>3
  <2>2. alone /\ row # NoRow /\ ~cut => row.revision = m.saved.revision
    BY DEF Inv, SerialInv, RowInv
  <2> QED BY <1>4, <2>1, <2>2 DEF RowInv, Acts
<1> QED BY <1>5, <1>6, <1>7 DEF SerialInv

LEMMA UndoSerial ==
  ASSUME NEW t, NEW alone \in BOOLEAN, Serial(t), Inv(t, alone),
         Undo(t) \/ UndoUnlink(t)
  PROVE  SerialInv(t, alone)'
<1> DEFINE m == mine[t]
           target == MyTarget(t)
<1>1. /\ pc[t] \in {"undo", "undo_unlink"}
      /\ UNCHANGED <<row, told, serving, cut>>
  BY DEF Undo, UndoUnlink
<1>2. /\ serving /\ m.call.op \in {"create", "promote", "deprecate"}
      /\ target \in Tiers /\ target = Target(m.call.op) /\ Written(m, file)
      /\ row.tier = m.second /\ m.second \in Tiers \cup {None}
      /\ pc[t] = "undo_unlink" => m.second # target
      /\ file \in [Tiers -> Documents \cup {NoDoc}]
      /\ m \in Locals /\ m.saved \in Documents \cup {NoDoc}
  BY <1>1, Wrought, OneThread DEF Locals, Inv
<1>3. m.saved = NoDoc <=> m.second = None
  BY <1>2 DEF Written
<1>4. CASE Undo(t) /\ m.second = target
  <2>1. m.saved # NoDoc
    BY <1>2, <1>3, <1>4, TargetTiers
  <2>2. PutFile(target, m.saved) /\ Finish(t)
    BY <1>4, <2>1 DEF Undo
  <2>3. \A tier \in Tiers : file'[tier] = Former(m, file)[tier]
    BY <1>2, <1>4, <2>2, FilePut, FormerFields DEF Inv, TypeInv
  <2> QED BY <1>1, <2>2, <2>3, Undone
<1>5. CASE Undo(t) /\ m.second # target
  <2>1. Goto(t, "undo_unlink")
    BY <1>5 DEF Undo
  <2>2. UNCHANGED file
    <3>1. CASE m.saved = NoDoc
      BY <1>5, <3>1 DEF Undo
    <3>2. CASE m.saved # NoDoc
      <4>1. m.second \in Tiers /\ file[m.second] = m.saved
        BY <1>2, <1>3, <1>5, <3>2 DEF Written
      <4>2. PutFile(m.second, m.saved)
        BY <1>5, <3>2 DEF Undo
      <4> QED BY <1>2, <4>1, <4>2 DEF PutFile
    <3> QED BY <3>1, <3>2
  <2>3. pc'[t] = "undo_unlink" /\ mine'[t] = m
    BY <2>1, OneThread DEF Goto, Inv
  <2>4. Wrote("undo_unlink", m, row, file)
    BY <1>2, <1>5 DEF Wrote
  <2>5. Knows("undo_unlink", m, row, file) /\ Completes("undo_unlink", m, row, file)
    BY DEF Knows, Completes
  <2>6. ServingInv(t)'
    BY <1>1, <1>2, <2>2, <2>3, <2>4, <2>5 DEF ServingInv, Acts
  <2>7. alone => LedgerInv(t)' /\ RowInv(t)'
    BY <1>1, <2>2, <2>3 DEF Inv, SerialInv, LedgerInv, RowInv, Acts
  <2> QED BY <2>6, <2>7 DEF SerialInv
<1>6. CASE UndoUnlink(t)
  <2>1. Unlink(target) /\ Finish(t) /\ m.second # target
    BY <1>2, <1>6 DEF UndoUnlink
  <2>2. \A tier \in Tiers : file'[tier] = Former(m, file)[tier]
    BY <1>2, <2>1, FileUnlinked, FormerFields DEF Inv, TypeInv
  <2> QED BY <1>1, <2>1, <2>2, Undone
<1> QED BY <1>4, <1>5, <1>6

(* Once the document is out of its former tier, the new one is served.     *)
LEMMA TargetWins ==
  ASSUME NEW m, m.call.op \in {"create", "promote", "deprecate"},
         NEW files \in [Tiers -> Documents \cup {NoDoc}],
         m.second \in Tiers \cup {None}, Written(m, files),
         NEW new,
         \A tier \in Tiers :
           new[tier] = IF tier = m.second /\ tier # Target(m.call.op)
                         THEN NoDoc ELSE files[tier]
  PROVE  Winner(new) = Target(m.call.op)
<1> DEFINE target == Target(m.call.op)
           former == Former(m, files)
<1>1. /\ target \in Tiers /\ Winner(former) = m.second /\ files[target] # NoDoc
      /\ Chosen(m, m.second, m.saved)
      /\ m.saved = NoDoc <=> m.second = None
  BY TargetTiers DEF Written
<1>2. /\ former[target] = IF m.second = target THEN m.saved ELSE NoDoc
      /\ \A tier \in Tiers \ {target} : former[tier] = files[tier]
  BY <1>1, FormerFields
<1> HIDE DEF former
<1>3. CASE m.call.op = "create"
  <2>1. target = "candidate"
    BY <1>3, TargetTiers
  <2> QED BY <1>1, <1>2, <2>1, WinnerIs, TargetTiers
<1>4. CASE m.call.op = "promote"
  <2>1. target = "canonical" /\ m.second = "candidate"
    BY <1>1, <1>4, TargetTiers DEF Chosen, Refused
  <2> QED BY <1>1, <1>2, <2>1, WinnerIs, TargetTiers
<1>5. CASE m.call.op = "deprecate"
  <2>1. target = "deprecated" /\ m.second # "deprecated"
    BY <1>1, <1>5, TargetTiers DEF Chosen, Refused
  <2> QED BY <1>1, <1>2, <2>1, WinnerIs, TargetTiers
<1> QED BY <1>3, <1>4, <1>5

LEMMA UnlinkFormerSerial ==
  ASSUME NEW t, NEW alone \in BOOLEAN, Serial(t), Inv(t, alone),
         UnlinkFormer(t)
  PROVE  SerialInv(t, alone)'
<1> DEFINE m == mine[t]
           target == MyTarget(t)
           former == IF m.second = target THEN None ELSE m.second
           next == IF m.call.op = "create" THEN "log" ELSE "unlink_first"
<1>1. /\ pc[t] = "unlink" /\ UNCHANGED <<row, told, serving, cut>>
      /\ Unlink(former) /\ Goto(t, next)
  BY DEF UnlinkFormer
<1>2. /\ serving /\ m.call.op \in {"create", "promote", "deprecate"}
      /\ target \in Tiers /\ target = Target(m.call.op) /\ Written(m, file)
      /\ m.second \in Tiers \cup {None}
      /\ row.tier = target /\ row.revision = file[target].revision
      /\ file \in [Tiers -> Documents \cup {NoDoc}]
  BY <1>1, Wrought
<1>3. former \in Tiers \cup {None} /\ former # target
  BY <1>2, TargetTiers
<1>4. \A tier \in Tiers :
        file'[tier] = IF tier = m.second /\ tier # target THEN NoDoc ELSE file[tier]
  <2>1. \A tier \in Tiers : file'[tier] = IF tier = former THEN NoDoc ELSE file[tier]
    <3> HIDE DEF former
    <3> QED BY <1>1, <1>3, FileUnlinked DEF Inv, TypeInv
  <2> QED BY <2>1, TargetTiers
<1>5. Winner(file') = target /\ file'[target] = file[target]
  <2>1. file'[target] = file[target]
    BY <1>2, <1>4
  <2>2. Winner(file') = Target(m.call.op)
    <3> HIDE DEF m
    <3> QED BY <1>2, <1>4, TargetWins
  <2> QED BY <1>2, <2>1, <2>2
<1>6. next \in {"log", "unlink_first"}
  OBVIOUS
<1>7. next = "unlink_first" => m.first \in Tiers \ {target} /\ file'[m.first] = NoDoc
  <2>1. next = "unlink_first" =>
          m.call.op # "create" /\ Chosen(m, m.second, m.saved)
    BY <1>2 DEF Written
  <2>2. next = "unlink_first" => m.first = m.second /\ m.second \in Tiers \ {target}
    BY <1>2, <2>1, TargetTiers DEF Chosen, Refused
  <2> QED BY <1>4, <2>2
<1> HIDE DEF next, former
<1>8. pc'[t] = next /\ mine'[t] = m
  BY <1>1, OneThread DEF Goto, Inv
<1>9. Wrote(next, m, row, file')
  BY <1>2, <1>5, <1>6, <1>7 DEF Wrote
<1>10. Knows(next, m, row, file') /\ Completes(next, m, row, file')
  BY <1>6 DEF Knows, Completes
<1>11. ServingInv(t)'
  BY <1>1, <1>2, <1>6, <1>8, <1>9, <1>10 DEF ServingInv, Acts
<1>12. file'[target] # NoDoc
  BY <1>2, <1>5 DEF Written
<1>13. alone => LedgerInv(t)' /\ RowInv(t)'
  BY <1>1, <1>2, <1>5, <1>6, <1>8, <1>12 DEF LedgerInv, RowInv, Acts
<1> QED BY <1>11, <1>13 DEF SerialInv

LEMMA LogSerial ==
  ASSUME NEW t, NEW alone \in BOOLEAN, Serial(t), Inv(t, alone),
         UnlinkFirst(t) \/ Log(t)
  PROVE  SerialInv(t, alone)'
<1> DEFINE m == mine[t]
           target == MyTarget(t)
<1>1. /\ serving /\ Wrote(pc[t], m, row, file) /\ target \in Tiers
      /\ m.call.op \notin {"reindex", "recover"}
      /\ file \in [Tiers -> Documents \cup {NoDoc}]
  BY Serves, OneThread, LocalsFields
     DEF UnlinkFirst, Log, Inv, TypeInv, DiskOK, Upserting, Writing
<1>2. /\ row.tier = target /\ row.revision = file[target].revision
      /\ Winner(file) = target /\ UNCHANGED <<row, serving>>
  BY <1>1 DEF UnlinkFirst, Log, Wrote, MyTarget
<1>3. file[target] # NoDoc
  BY <1>1, <1>2, WinnerIs, TargetTiers
<1>4. CASE UnlinkFirst(t)
  <2>1. m.first \in Tiers /\ file[m.first] = NoDoc
    BY <1>1, <1>4 DEF UnlinkFirst, Wrote
  <2>2. UNCHANGED file
    BY <1>1, <1>4, <2>1, TargetTiers DEF UnlinkFirst, Unlink, PutFile
  <2>3. pc'[t] = "log" /\ mine'[t] = m
    BY <1>4, OneThread DEF UnlinkFirst, Goto, Inv
  <2>4. /\ Wrote("log", m, row, file) /\ Knows("log", m, row, file)
        /\ Completes("log", m, row, file)
    BY <1>2 DEF Wrote, Knows, Completes, MyTarget
  <2>5. ServingInv(t)'
    BY <1>1, <1>2, <2>2, <2>3, <2>4 DEF ServingInv, Acts
  <2>6. alone => LedgerInv(t)' /\ RowInv(t)'
    BY <1>2, <1>3, <2>2, <2>3 DEF LedgerInv, RowInv, Acts
  <2> QED BY <2>5, <2>6 DEF SerialInv
<1>5. CASE Log(t)
  <2>1. pc'[t] = "idle" /\ mine'[t] = Idle /\ told' = target /\ UNCHANGED file
    BY <1>5, OneThread DEF Log, Finish, Inv
  <2>2. ServingInv(t)'
    BY <1>1, <1>2, <2>1, IdleKnows DEF ServingInv, Knows, Completes, Wrote
  <2>3. alone => LedgerInv(t)' /\ RowInv(t)'
    BY <1>2, <1>3, <2>1 DEF LedgerInv, RowInv, Acts
  <2> QED BY <2>2, <2>3 DEF SerialInv
<1> QED BY <1>4, <1>5

LEMMA SerialStep ==
  ASSUME NEW t, NEW alone \in BOOLEAN, Serial(t), Inv(t, alone),
         [Next]_vars
  PROVE  Inv(t, alone)'
<1>1. TypeInv' /\ RecoveryInv'
  BY TypeStep, RecoveryStep DEF Inv
<1>2. SerialInv(t, alone)'
  <2>1. CASE Crash
    BY <2>1, CrashSerial
  <2>2. CASE UNCHANGED vars
    BY <2>2 DEF vars, Inv, SerialInv, ServingInv, LedgerInv, RowInv
  <2>3. CASE Begin(t) \/ Read(t) \/ Upsert(t) \/ Settle(t) \/ Rebuild(t)
    BY <2>3, BeginSerial, FetchSerial, LoadSerial, MigrateSerial, ResyncSerial,
       WriteSerial, SyncSerial, SyncFailsSerial, UndoSerial,
       UnlinkFormerSerial, LogSerial, RebuildSerial
       DEF Read, Upsert, Settle
  <2> QED BY <2>1, <2>2, <2>3, OneThread DEF Next, Inv
<1> QED BY <1>1, <1>2 DEF Inv

LEMMA SerialAlways ==
  ASSUME NEW t, Serial(t)
  PROVE  Spec => []Inv(t, TRUE)
<1>1. Init => Inv(t, TRUE)
  BY InitSerial
<1>2. Inv(t, TRUE) /\ [Next]_vars => Inv(t, TRUE)'
  BY SerialStep
<1> QED BY <1>1, <1>2, PTL DEF Spec

-----------------------------------------------------------------------------
(* The properties.                                                         *)

(* At every moment, and so after a crash between any two accesses, the row *)
(* of the manifest names a file that is there.                             *)
THEOREM BackedAlways ==
  ASSUME NEW t, Serial(t)
  PROVE  Spec => []Backed
<1>1. Inv(t, TRUE) => Backed
  BY DEF Inv, SerialInv, RowInv, Backed
<1> QED BY <1>1, SerialAlways, PTL

(* Whenever the server is up and idle, the manifest names the tier that a  *)
(* rebuild would find, and the revision of the document in it unless a     *)
(* crash cut off the request that wrote it.                                *)
THEOREM IndexAlwaysAgrees ==
  ASSUME NEW t, Serial(t)
  PROVE  Spec => []IndexAgrees
<1>1. Inv(t, TRUE) => IndexAgrees
  <2> SUFFICES ASSUME Inv(t, TRUE), Quiescent
               PROVE  /\ row.tier = Winner(file)
                      /\ row # NoRow /\ ~cut =>
                           row.revision = file[row.tier].revision
    BY DEF IndexAgrees
  <2>1. serving /\ pc[t] = "idle"
    BY DEF Quiescent, Serial
  <2> QED BY <2>1 DEF Inv, SerialInv, ServingInv, RowInv, Acts
<1> QED BY <1>1, SerialAlways, PTL

(* And the last event of the object in the ledger tells that tier: an      *)
(* update whose write to the manifest failed has left no trace, one that   *)
(* was answered is not undone by the crashes that follow.                  *)
THEOREM LedgerAlwaysFollows ==
  ASSUME NEW t, Serial(t)
  PROVE  Spec => []LedgerFollows
<1>1. Inv(t, TRUE) => LedgerFollows
  BY DEF Inv, SerialInv, LedgerInv, LedgerFollows, Quiescent, Serial, Acts
<1> QED BY <1>1, SerialAlways, PTL

(* No read comes back empty-handed while a file of the object is there.    *)
THEOREM NotFoundAlwaysMeansAbsent ==
  ASSUME NEW t, Serial(t)
  PROVE  Spec => []NotFoundMeansAbsent
<1>1. Inv(t, TRUE) => NotFoundMeansAbsent
  <2> SUFFICES ASSUME Inv(t, TRUE), EmptyHanded(t)
               PROVE  OnDisk = {} /\ row = NoRow
    BY DEF NotFoundMeansAbsent, Serial
  <2>1. /\ pc[t] \in {"missing", "done"} /\ mine[t].call.op \in Reads
        /\ mine[t].text = None
    BY DEF EmptyHanded
  <2>2. mine[t].call # Recovery
    BY <2>1 DEF Recovery, Reads
  <2>3. row.tier = Winner(file) /\ row = NoRow
    BY <2>1, <2>2, Serves DEF Knows, Acts
  <2>4. Winner(file) = None
    BY <2>3 DEF NoRow
  <2> QED BY <2>3, <2>4, WinnerIs DEF OnDisk
<1> QED BY <1>1, SerialAlways, PTL

-----------------------------------------------------------------------------
(* The refinement of KnowledgeBase.                                        *)

Value(files) ==
  LET tier == Winner(files)
      doc  == IF tier = None THEN NoDoc ELSE files[tier]
  IN  [tier |-> tier, text |-> doc.text, revision |-> doc.revision]

(* What the request under way replaces, and what it puts there.            *)
Old(m) == [tier |-> m.second, text |-> m.saved.text, revision |-> m.saved.revision]
New(m) == [tier |-> Target(m.call.op), text |-> m.text, revision |-> m.revision]

LEMMA StandingIs ==
  ASSUME NEW t, Serial(t), TypeInv
  PROVE  Standing = IF Undoable(t) THEN Former(mine[t], file) ELSE file
<1>1. t \in Threads /\ (\A u \in Threads : u = t)
      /\ file \in [Tiers -> Documents \cup {NoDoc}]
  BY OneThread DEF TypeInv, DiskOK
<1>2. CASE ~Undoable(t)
  <2>1. \A tier \in Tiers : ~\E u \in Threads : Undoable(u) /\ tier = MyTarget(u)
    BY <1>1, <1>2
  <2>2. Standing = [tier \in Tiers |-> file[tier]]
    BY <2>1 DEF Standing
  <2> QED BY <1>1, <1>2, <2>2
<1>3. CASE Undoable(t)
  <2> DEFINE m == mine[t]
  <2>1. ASSUME NEW tier \in Tiers
        PROVE  Standing[tier] = Former(m, file)[tier]
    <3>1. CASE tier = MyTarget(t)
      <4>1. (CHOOSE u \in Threads : Undoable(u) /\ tier = MyTarget(u)) = t
        BY <1>1, <1>3, <3>1
      <4>2. \E u \in Threads : Undoable(u) /\ tier = MyTarget(u)
        BY <1>1, <1>3, <3>1
      <4>3. Standing[tier] = IF m.second = tier THEN m.saved ELSE NoDoc
        BY <4>1, <4>2 DEF Standing
      <4> QED BY <1>1, <3>1, <4>3, FormerFields DEF MyTarget
    <3>2. CASE tier # MyTarget(t)
      <4>1. ~\E u \in Threads : Undoable(u) /\ tier = MyTarget(u)
        BY <1>1, <3>2
      <4>2. Standing[tier] = file[tier]
        BY <4>1 DEF Standing
      <4> QED BY <1>1, <3>2, <4>2, FormerFields DEF MyTarget
    <3> QED BY <3>1, <3>2
  <2>2. /\ Standing = [tier \in Tiers |-> Standing[tier]]
        /\ Former(m, file) = [tier \in Tiers |-> Former(m, file)[tier]]
    BY <1>1 DEF Standing, Former
  <2> QED BY <1>3, <2>1, <2>2
<1> QED BY <1>2, <1>3

LEMMA SameValue ==
  ASSUME NEW f, NEW g,
         \A tier \in Tiers : /\ f[tier] = NoDoc <=> g[tier] = NoDoc
                             /\ f[tier].text = g[tier].text
                             /\ f[tier].revision = g[tier].revision
  PROVE  Value(f) = Value(g)
<1>1. Winner(f) = Winner(g)
  BY SameWinner
<1> QED BY <1>1, WinnerIs DEF Value

LEMMA ValueIs ==
  ASSUME NEW files, NEW tier \in Tiers, Winner(files) = tier
  PROVE  Value(files) = [tier |-> tier, text |-> files[tier].text,
                         revision |-> files[tier].revision]
BY TargetTiers DEF Value

(* Served, as long as no file is written, and while one can be undone.     *)
LEMMA ServedIs ==
  ASSUME NEW t, NEW alone \in BOOLEAN, Serial(t), Inv(t, alone)
  PROVE  /\ ~Undoable(t) => Served = Value(file)
         /\ Undoable(t) => Served = Old(mine[t])
<1>1. Served = Value(Standing)
  BY DEF Served, Value
<1>2. CASE ~Undoable(t)
  BY <1>1, <1>2, StandingIs DEF Inv
<1>3. CASE Undoable(t)
  <2> DEFINE m == mine[t]
             former == Former(m, file)
  <2>1. /\ Written(m, file) /\ m.second \in Tiers \cup {None}
        /\ file \in [Tiers -> Documents \cup {NoDoc}]
    BY <1>3, Wrought DEF Undoable
  <2>2. Served = Value(former) /\ Winner(former) = m.second
    BY <1>1, <1>3, <2>1, StandingIs DEF Inv, Written
  <2>3. m.second \in Tiers => former[m.second] = m.saved
    <3>1. CASE m.second = Target(m.call.op)
      BY <2>1, <3>1, FormerFields
    <3>2. CASE m.second # Target(m.call.op)
      BY <2>1, <3>2, FormerFields DEF Written
    <3> QED BY <3>1, <3>2
  <2>4. m.second = None => m.saved = NoDoc
    BY <2>1 DEF Written
  <2> HIDE DEF former
  <2>5. CASE m.second \in Tiers
    BY <1>3, <2>2, <2>3, <2>5, ValueIs DEF Old
  <2>6. CASE m.second = None
    BY <1>3, <2>2, <2>4, <2>6 DEF Old, Value
  <2> QED BY <2>1, <2>5, <2>6
<1> QED BY <1>2, <1>3

(* With a document written and its predecessor not removed, a restart      *)
(* serves the one or the other.                                            *)
LEMMA OldOrNew ==
  ASSUME NEW m, m.call.op \in {"create", "promote", "deprecate"},
         NEW files \in [Tiers -> Documents \cup {NoDoc}],
         m.second \in Tiers \cup {None}, Written(m, files)
  PROVE  Value(files) \in {Old(m), New(m)}
<1> DEFINE target == Target(m.call.op)
           former == Former(m, files)
<1>1. /\ target \in Tiers /\ Winner(former) = m.second /\ files[target] # NoDoc
      /\ files[target].text = m.text /\ files[target].revision = m.revision
      /\ m.second \in Tiers \ {target} => files[m.second] = m.saved
  BY TargetTiers DEF Written
<1>2. \A tier \in Tiers \ {target} : former[tier] = files[tier]
  BY <1>1, FormerFields
<1> HIDE DEF former
<1>3. CASE Winner(files) = target
  BY <1>1, <1>3, ValueIs DEF New
<1>4. CASE Winner(files) # target
  <2>1. Winner(files) \in Tiers
    BY <1>1, WinnerIs
  <2>2. Winner(files) = Winner(former)
    BY <1>1, <1>2, <1>4, <2>1, WinnerIs, TargetTiers
  <2> QED BY <1>1, <1>4, <2>1, <2>2, ValueIs DEF Old
<1> QED BY <1>3, <1>4

(* And it is a step of the abstract KB from the one to the other.          *)
LEMMA NextFromOld ==
  ASSUME NEW t, NEW alone \in BOOLEAN, Serial(t), Inv(t, alone),
         pc[t] \in {"sync", "undo", "undo_unlink", "unlink"},
         Served = Old(mine[t]), Served' = New(mine[t])
  PROVE  Knowledge!Next
<1> DEFINE m == mine[t]
<1>1. /\ Written(m, file) /\ m.call.op \in {"create", "promote", "deprecate"}
      /\ Placed(pc[t], m) /\ m \in Locals /\ file \in [Tiers -> Documents \cup {NoDoc}]
  BY Wrought, OneThread DEF Inv
<1>2. Chosen(m, m.second, m.saved) /\ m.revision = m.saved.revision + 1
  BY <1>1 DEF Written
<1>3. CASE m.call.op = "create"
  <2>1. m.text \in Texts
    <3>1. file["candidate"] # NoDoc /\ file["candidate"].text = m.text
      BY <1>1, <1>3, TargetTiers DEF Written
    <3> QED BY <1>1, <3>1, DocumentFields, TargetTiers
  <2>2. Served' = [tier |-> "candidate", text |-> m.text,
                   revision |-> Served.revision + 1]
    BY <1>2, <1>3, TargetTiers DEF Old, New
  <2> QED BY <2>1, <2>2 DEF Knowledge!Next, Knowledge!Create, Knowledge!Raised
<1>4. CASE m.call.op # "create"
  <2>1. /\ m.second \in Tiers /\ ~Refused(m.call.op, m.second)
        /\ m.text = m.saved.text
    BY <1>2, <1>4 DEF Chosen
  <2>2. Served' = [tier |-> Target(m.call.op), text |-> Served.text,
                   revision |-> Served.revision + 1]
    BY <1>2, <2>1 DEF Old, New
  <2>3. Served # Knowledge!NoObject /\ Served.tier = m.second
    BY <2>1, TargetTiers DEF Old, Knowledge!NoObject, Knowledge!None, None
  <2>4. CASE m.call.op = "promote"
    <3>1. Served.tier = "candidate" /\ Target(m.call.op) = "canonical"
      BY <2>1, <2>3, <2>4, TargetTiers DEF Refused
    <3> QED BY <2>2, <2>3, <3>1
         DEF Knowledge!Next, Knowledge!Promote, Knowledge!Move, Knowledge!Raised
  <2>5. CASE m.call.op = "deprecate"
    <3>1. Served.tier # "deprecated" /\ Target(m.call.op) = "deprecated"
      BY <2>1, <2>3, <2>5, TargetTiers DEF Refused
    <3> QED BY <2>2, <2>3, <3>1
         DEF Knowledge!Next, Knowledge!Deprecate, Knowledge!Move, Knowledge!Raised
  <2> QED BY <1>1, <1>4, <2>4, <2>5
<1> QED BY <1>3, <1>4

LEMMA ServedNext ==
  ASSUME NEW t, NEW alone \in BOOLEAN, Serial(t)
  PROVE  Inv(t, alone)' =>
           /\ ~Undoable(t)' => Served' = Value(file')
           /\ Undoable(t)' => Served' = Old(mine'[t])
<1>1. Inv(t, alone) =>
        /\ ~Undoable(t) => Served = Value(file)
        /\ Undoable(t) => Served = Old(mine[t])
  BY ServedIs
<1>2. (Inv(t, alone) =>
         /\ ~Undoable(t) => Served = Value(file)
         /\ Undoable(t) => Served = Old(mine[t]))'
  BY <1>1, PTL
<1> QED BY <1>2 DEF Old

(* Outside a write, what is served hangs on the files alone.               *)
LEMMA SameServed ==
  ASSUME NEW t, NEW alone \in BOOLEAN, Serial(t), Inv(t, alone),
         Inv(t, alone)', ~Undoable(t), ~Undoable(t)',
         \A tier \in Tiers : /\ file'[tier] = NoDoc <=> file[tier] = NoDoc
                             /\ file'[tier].text = file[tier].text
                             /\ file'[tier].revision = file[tier].revision
  PROVE  Served' = Served
<1>1. Value(file') = Value(file)
  BY SameValue
<1> QED BY <1>1, ServedIs, ServedNext

(* The steps that write no file, but Crash.                                *)
LEMMA ControlServed ==
  ASSUME NEW t, NEW alone \in BOOLEAN, Serial(t), Inv(t, alone),
         Inv(t, alone)',
         \/ Begin(t) \/ Fetch(t) \/ Load(t) \/ Resync(t) \/ Answer(t)
         \/ Refetch(t) \/ Reload(t) \/ Save(t) \/ Log(t) \/ Rebuild(t)
  PROVE  Served' = Served
<1> DEFINE m == mine[t]
<1>1. UNCHANGED file /\ pc[t] \notin {"sync", "undo", "undo_unlink"}
  <2>1. CASE Begin(t) \/ Fetch(t) \/ Load(t) \/ Resync(t) \/ Answer(t)
    BY <2>1 DEF Begin, Fetch, Load, Resync, Answer
  <2>2. CASE Refetch(t) \/ Reload(t) \/ Save(t) \/ Log(t)
    BY <2>2 DEF Refetch, Reload, Save, Log
  <2>3. CASE Clear(t) \/ Scan(t) \/ Recovered(t)
    BY <2>3 DEF Clear, Scan, Recovered
  <2>4. CASE Restart(t)
    BY <2>4 DEF Restart, Serial
  <2> QED BY <2>1, <2>2, <2>3, <2>4 DEF Rebuild
<1>2. pc'[t] \notin {"sync", "undo", "undo_unlink"}
  <2>1. \A label, n : Step(t, label, n) => pc'[t] = label
    BY OneThread DEF Inv
  <2>2. CASE Begin(t) \/ Fetch(t) \/ Answer(t) \/ Log(t)
    BY <2>1, <2>2 DEF Begin, Fetch, Unlisted, Answer, Log, Goto, Finish
  <2>3. CASE Load(t) \/ Reload(t)
    BY <2>1, <2>3 DEF Load, Unloaded, Reload, Continue, Goto
  <2>4. CASE Refetch(t) \/ Save(t)
    BY <2>1, <2>4 DEF Refetch, Save, Goto
  <2>5. CASE Resync(t)
    <3>1. m.then \in {"done", "refetch", "save", "scan"}
      BY <2>5, OneThread DEF Resync, Placed, Inv
    <3> QED BY <2>1, <2>5, <3>1 DEF Resync
  <2>6. CASE Clear(t) \/ Recovered(t)
    BY <2>1, <2>6 DEF Clear, Recovered, Finish
  <2>7. CASE Scan(t)
    BY <2>1, <2>7 DEF Scan
  <2>8. CASE Restart(t)
    <3>1. pc[t] = "idle"
      BY <2>8 DEF Restart, Serial
    <3> QED BY <2>1, <2>8, <3>1 DEF Restart
  <2> QED BY <2>2, <2>3, <2>4, <2>5, <2>6, <2>7, <2>8 DEF Rebuild
<1> QED BY <1>1, <1>2, SameServed DEF Undoable

LEMMA MigrateServed ==
  ASSUME NEW t, NEW alone \in BOOLEAN, Serial(t), Inv(t, alone),
         Inv(t, alone)', Migrate(t)
  PROVE  Served' = Served
<1> DEFINE m == mine[t]
           new == [m.stale EXCEPT !.legacy = FALSE]
<1>1. pc[t] = "migrate" /\ PutFile(m.at, new) /\ pc'[t] = "resync"
  BY OneThread DEF Migrate, Goto, Inv
<1>2. /\ m.at \in Tiers /\ m.stale \in Documents /\ file[m.at] # NoDoc
      /\ file[m.at].text = m.stale.text
      /\ file[m.at].revision = m.stale.revision
  BY <1>1, Completing
<1>3. /\ new \in Documents /\ new # NoDoc /\ new.text = m.stale.text
      /\ new.revision = m.stale.revision
  BY <1>2, DocumentMigrated
<1> HIDE DEF new
<1>4. \A tier \in Tiers : /\ file'[tier] = NoDoc <=> file[tier] = NoDoc
                          /\ file'[tier].text = file[tier].text
                          /\ file'[tier].revision = file[tier].revision
  BY <1>1, <1>2, <1>3, FilePut DEF Inv, TypeInv
<1> QED BY <1>1, <1>4, SameServed DEF Undoable

(* The document is written, but does not count yet.                        *)
LEMMA WriteServed ==
  ASSUME NEW t, NEW alone \in BOOLEAN, Serial(t), Inv(t, alone),
         Inv(t, alone)', Write(t)
  PROVE  Served' = Served
<1> DEFINE m == mine[t]
<1>1. /\ pc[t] = "write" /\ row.tier = Winner(file) /\ Knows("write", m, row, file)
      /\ row \in Rows \cup {NoRow}
  BY Serves DEF Write, Acts, Inv, TypeInv, DiskOK
<1>2. Served = Value(file)
  BY <1>1, ServedIs DEF Undoable
<1>3. Value(file) = Old(m)
  BY <1>1, RowFields, TargetTiers DEF Knows, Value, Old, NoRow
<1>4. pc'[t] = "sync" /\ mine'[t] = m
  BY OneThread DEF Write, Goto, Inv
<1> QED BY <1>2, <1>3, <1>4, ServedNext DEF Undoable

(* The commit of the row, and a crash before it, which a rebuild follows:  *)
(* the move is made, or not begun.                                         *)
LEMMA SyncServed ==
  ASSUME NEW t, NEW alone \in BOOLEAN, Serial(t), Inv(t, alone),
         Inv(t, alone)', Undoable(t), ~Undoable(t)',
         UNCHANGED file
  PROVE  Served' = Served \/ Knowledge!Next
<1> DEFINE m == mine[t]
<1>1. pc[t] \in {"sync", "undo", "undo_unlink"}
  BY DEF Undoable
<1>2. Served = Old(m)
  BY ServedIs
<1>3. Value(file) \in {Old(m), New(m)}
  <2> HIDE DEF m
  <2>1. /\ m.call.op \in {"create", "promote", "deprecate"}
        /\ file \in [Tiers -> Documents \cup {NoDoc}]
        /\ m.second \in Tiers \cup {None} /\ Written(m, file)
    BY <1>1, Wrought DEF m
  <2> QED BY <2>1, OldOrNew
<1>4. Served' = Value(file)
  BY ServedNext
<1> QED BY <1>1, <1>2, <1>3, <1>4, NextFromOld

LEMMA UndoServed ==
  ASSUME NEW t, NEW alone \in BOOLEAN, Serial(t), Inv(t, alone),
         Inv(t, alone)',
         \/ pc[t] = "sync" /\ SyncFails(t)
         \/ Undo(t) \/ UndoUnlink(t)
  PROVE  Served' = Served
<1> DEFINE m == mine[t]
           target == MyTarget(t)
<1>1. pc[t] \in {"sync", "undo", "undo_unlink"} /\ Undoable(t)
  BY DEF Undo, UndoUnlink, Undoable
<1>2. Served = Old(m)
  BY <1>1, ServedIs
<1>3. /\ target \in Tiers /\ target = Target(m.call.op) /\ Written(m, file)
      /\ m.second \in Tiers \cup {None}
      /\ pc[t] = "undo_unlink" => m.second # target
      /\ file \in [Tiers -> Documents \cup {NoDoc}]
      /\ m.saved \in Documents \cup {NoDoc}
  BY <1>1, Wrought, OneThread DEF Locals, Inv
<1>4. /\ Winner(Former(m, file)) = m.second
      /\ m.saved = NoDoc <=> m.second = None
      /\ m.second \in Tiers \ {target} => file[m.second] = m.saved
  BY <1>3 DEF Written
<1>5. ASSUME Goto(t, "undo") \/ Goto(t, "undo_unlink")
      PROVE  Served' = Served
  <2>1. pc'[t] \in {"undo", "undo_unlink"} /\ mine'[t] = m
    BY <1>5, OneThread DEF Goto, Inv
  <2> QED BY <1>2, <2>1, ServedNext DEF Undoable
<1>6. ASSUME Finish(t), \A tier \in Tiers : file'[tier] = Former(m, file)[tier]
      PROVE  Served' = Served
  <2>1. pc'[t] = "idle"
    BY <1>6, OneThread DEF Finish, Inv
  <2>2. Served' = Value(file')
    BY <2>1, ServedNext DEF Undoable
  <2>3. Winner(file') = m.second
    BY <1>4, <1>6, SameWinner
  <2>4. CASE m.second \in Tiers
    <3>1. file'[m.second] = m.saved
      BY <1>3, <1>4, <1>6, <2>4, FormerFields
    <3> QED BY <1>2, <2>2, <2>3, <2>4, <3>1, ValueIs DEF Old
  <2>5. CASE m.second = None
    BY <1>2, <1>4, <2>2, <2>3, <2>5 DEF Old, Value
  <2> QED BY <1>3, <2>4, <2>5
<1>7. CASE pc[t] = "sync" /\ SyncFails(t)
  BY <1>5, <1>7 DEF SyncFails
<1>8. CASE Undo(t) /\ m.second = target
  <2>1. m.saved # NoDoc
    BY <1>3, <1>4, <1>8, TargetTiers
  <2>2. PutFile(target, m.saved) /\ Finish(t)
    BY <1>8, <2>1 DEF Undo
  <2>3. \A tier \in Tiers : file'[tier] = Former(m, file)[tier]
    BY <1>3, <1>8, <2>2, FilePut, FormerFields DEF Inv, TypeInv
  <2> QED BY <1>6, <2>2, <2>3
<1>9. CASE Undo(t) /\ m.second # target
  BY <1>5, <1>9 DEF Undo
<1>10. CASE UndoUnlink(t)
  <2>1. Unlink(target) /\ Finish(t) /\ m.second # target
    BY <1>3, <1>10 DEF UndoUnlink
  <2>2. \A tier \in Tiers : file'[tier] = Former(m, file)[tier]
    BY <1>3, <2>1, FileUnlinked, FormerFields DEF Inv, TypeInv
  <2> QED BY <1>6, <2>1, <2>2
<1> QED BY <1>7, <1>8, <1>9, <1>10

(* The former file goes: if it was the one a restart would serve, the move *)
(* is made only now.                                                       *)
LEMMA UnlinkServed ==
  ASSUME NEW t, NEW alone \in BOOLEAN, Serial(t), Inv(t, alone),
         Inv(t, alone)', UnlinkFormer(t)
  PROVE  Served' = Served \/ Knowledge!Next
<1> DEFINE m == mine[t]
           target == MyTarget(t)
           former == IF m.second = target THEN None ELSE m.second
<1>1. pc[t] = "unlink" /\ Unlink(former)
  BY DEF UnlinkFormer
<1>2. /\ m.call.op \in {"create", "promote", "deprecate"}
      /\ target \in Tiers /\ target = Target(m.call.op) /\ Written(m, file)
      /\ m.second \in Tiers \cup {None}
      /\ file \in [Tiers -> Documents \cup {NoDoc}]
  BY <1>1, Wrought
<1>3. Served = Value(file)
  BY <1>1, ServedIs DEF Undoable
<1>4. Value(file) \in {Old(m), New(m)}
  <2> HIDE DEF m
  <2> QED BY <1>2, OldOrNew
<1>5. former \in Tiers \cup {None} /\ former # target
  BY <1>2, TargetTiers
<1>6. \A tier \in Tiers :
        file'[tier] = IF tier = m.second /\ tier # target THEN NoDoc ELSE file[tier]
  <2>1. \A tier \in Tiers : file'[tier] = IF tier = former THEN NoDoc ELSE file[tier]
    <3> HIDE DEF former
    <3> QED BY <1>1, <1>5, FileUnlinked DEF Inv, TypeInv
  <2> QED BY <2>1, TargetTiers
<1>7. Value(file') = New(m)
  <2>1. Winner(file') = target
    <3> HIDE DEF m
    <3> QED BY <1>2, <1>6, TargetWins
  <2>2. file'[target].text = m.text /\ file'[target].revision = m.revision
    BY <1>2, <1>6 DEF Written
  <2> QED BY <1>2, <2>1, <2>2, ValueIs DEF New
<1>8. Served' = New(m)
  <2>1. pc'[t] \notin {"sync", "undo", "undo_unlink"}
    BY OneThread DEF UnlinkFormer, Goto, Inv
  <2> QED BY <1>7, <2>1, ServedNext DEF Undoable
<1> QED BY <1>1, <1>3, <1>4, <1>8, NextFromOld

LEMMA UnlinkFirstServed ==
  ASSUME NEW t, NEW alone \in BOOLEAN, Serial(t), Inv(t, alone),
         Inv(t, alone)', UnlinkFirst(t)
  PROVE  Served' = Served
<1>1. pc[t] = "unlink_first" /\ pc'[t] = "log"
  BY OneThread DEF UnlinkFirst, Goto, Inv
<1>2. Wrote("unlink_first", mine[t], row, file)
  BY <1>1, Serves
<1>3. UNCHANGED file
  <2>1. mine[t].first \in Tiers /\ file[mine[t].first] = NoDoc
    BY <1>2 DEF Wrote
  <2>2. file \in [Tiers -> Documents \cup {NoDoc}]
    BY DEF Inv, TypeInv, DiskOK
  <2> QED BY <2>1, <2>2, TargetTiers DEF UnlinkFirst, Unlink, PutFile
<1> QED BY <1>1, <1>3, SameServed DEF Undoable

LEMMA KnowledgeStep ==
  ASSUME NEW t, NEW alone \in BOOLEAN, Serial(t), Inv(t, alone),
         Inv(t, alone)', [Next]_vars
  PROVE  Served' = Served \/ Knowledge!Next
<1>1. CASE Crash
  <2>1. pc'[t] = "idle" /\ UNCHANGED file
    BY <1>1 DEF Crash, Serial
  <2>2. CASE Undoable(t)
    BY <2>1, <2>2, SyncServed DEF Undoable
  <2>3. CASE ~Undoable(t)
    BY <2>1, <2>3, SameServed DEF Undoable
  <2> QED BY <2>2, <2>3
<1>2. CASE UNCHANGED vars
  BY <1>2 DEF vars, Served, Standing, Undoable, MyTarget
<1>3. CASE Sync(t)
  <2>1. pc[t] = "sync" /\ pc'[t] = "unlink" /\ UNCHANGED file
    BY <1>3, OneThread DEF Sync, Goto, Inv
  <2> QED BY <2>1, SyncServed DEF Undoable
<1>4. CASE SyncFails(t)
  <2>1. CASE pc[t] = "sync"
    BY <1>4, <2>1, UndoServed
  <2>2. CASE pc[t] # "sync"
    <3>1. pc[t] = "resync" /\ pc'[t] = "idle" /\ UNCHANGED file
      BY <1>4, <2>2, OneThread DEF SyncFails, Finish, Inv
    <3> QED BY <3>1, SameServed DEF Undoable
  <2> QED BY <2>1, <2>2
<1>5. CASE Undo(t) \/ UndoUnlink(t)
  BY <1>5, UndoServed
<1>6. CASE Begin(t) \/ Read(t) \/ Upsert(t) \/ Settle(t) \/ Rebuild(t)
  BY <1>3, <1>4, <1>5, <1>6, ControlServed, MigrateServed, WriteServed,
     UnlinkServed, UnlinkFirstServed DEF Read, Upsert, Settle
<1> QED BY <1>1, <1>2, <1>6, OneThread DEF Next, Inv

(* What a restart would serve changes as KnowledgeBase allows, by whole    *)
(* creations, promotions and deprecations: whatever access of a request a  *)
(* crash or a failure of the database cuts off, the object is as before it *)
(* or as after it.                                                         *)
THEOREM ImplementsKnowledgeBase ==
  ASSUME NEW t, Serial(t)
  PROVE  Spec => RefinesKnowledgeBase
<1>1. Init => Knowledge!Init
  <2> SUFFICES ASSUME Init PROVE Knowledge!Init
    OBVIOUS
  <2>1. Served = Value(file)
    <3>1. Inv(t, TRUE) /\ ~Undoable(t)
      BY InitSerial DEF Init, Undoable, Serial
    <3> QED BY <3>1, ServedIs
  <2>2. file \in [Tiers -> Documents \cup {NoDoc}]
    BY InitSerial DEF Inv, TypeInv, DiskOK
  <2>3. CASE Winner(file) = None
    BY <2>1, <2>3 DEF Value, NoDoc, Knowledge!Init, Knowledge!NoObject,
                      Knowledge!None, None
  <2>4. CASE Winner(file) # None
    <3>1. Winner(file) \in Tiers /\ file[Winner(file)] # NoDoc
      BY <2>4, WinnerIs, TargetTiers
    <3>2. /\ file[Winner(file)].text \in Texts
          /\ file[Winner(file)].revision \in Nat \ {0}
      BY <2>2, <3>1, DocumentFields
    <3> QED BY <2>1, <3>1, <3>2, ValueIs
         DEF Knowledge!Init, Knowledge!IsObject, Knowledge!Tiers, Tiers
  <2> QED BY <2>3, <2>4
<1>2. Inv(t, TRUE) /\ Inv(t, TRUE)' /\ [Next]_vars => [Knowledge!Next]_Served
  BY KnowledgeStep
<1> QED BY <1>1, <1>2, SerialAlways, PTL DEF Spec, RefinesKnowledgeBase, Knowledge!Spec
=============================================================================
