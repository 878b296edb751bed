------------------------------ MODULE ThinKBProofs ------------------------------
(***************************************************************************)
(* Theorems about ThinKB that hold whatever the interleaving: type         *)
(* correctness, and what a restart recovers.  Any number of worker         *)
(* threads, any objects found on disk, any requests and crashes.           *)
(***************************************************************************)
EXTENDS ThinKB, TLAPS

-----------------------------------------------------------------------------
(* Data.                                                                   *)

LEMMA DocumentFields ==
  ASSUME NEW doc \in Documents \cup {NoDoc}
  PROVE  /\ doc.text \in Texts \cup {None}
         /\ doc.revision \in Nat
         /\ doc.legacy \in BOOLEAN
         /\ doc # NoDoc => /\ doc \in Documents
                           /\ doc.text \in Texts /\ doc.text # None
                           /\ doc.revision # 0
         /\ doc = NoDoc => doc.text = None /\ doc.revision = 0
<1>1. CASE doc \in Documents
  <2>1. doc.text \in Texts /\ doc.revision \in Nat \ {0} /\ doc.legacy \in BOOLEAN
    BY <1>1 DEF Documents
  <2>2. NoDoc.text = None /\ doc.text # None
    BY <2>1, TextsAssumption DEF NoDoc
  <2> QED BY <1>1, <2>1, <2>2
<1>2. CASE doc = NoDoc
  <2>1. doc.text = None /\ doc.revision = 0 /\ doc.legacy \in BOOLEAN
    BY <1>2 DEF NoDoc
  <2> QED BY <1>2, <2>1
<1> QED BY <1>1, <1>2

LEMMA DocumentMade ==
  ASSUME NEW text \in Texts, NEW revision \in Nat \ {0}
  PROVE  LET doc == [text |-> text, revision |-> revision, legacy |-> FALSE]
         IN  doc \in Documents /\ doc # NoDoc
BY TextsAssumption DEF Documents, NoDoc

(* A document of an older schema, completed.                               *)
LEMMA DocumentMigrated ==
  ASSUME NEW doc \in Documents
  PROVE  LET new == [doc EXCEPT !.legacy = FALSE]
         IN  /\ new \in Documents /\ new # NoDoc
             /\ new.text = doc.text /\ new.revision = doc.revision
BY TextsAssumption DEF Documents, NoDoc

LEMMA RowFields ==
  ASSUME NEW r \in Rows \cup {NoRow}
  PROVE  /\ r.tier \in Tiers \cup {None}
         /\ r.revision \in Nat
         /\ r # NoRow <=> r.tier \in Tiers
         /\ r = NoRow <=> r.tier = None
<1>1. None \notin Tiers
  BY DEF None, Tiers
<1> QED BY <1>1 DEF Rows, NoRow

LEMMA RowMade ==
  ASSUME NEW tier \in Tiers, NEW revision \in Nat \ {0}
  PROVE  LET r == [tier |-> tier, revision |-> revision]
         IN  r \in Rows /\ r # NoRow /\ r.tier = tier /\ r.revision = revision
BY DEF Rows, NoRow, Tiers, None

-----------------------------------------------------------------------------
(* Type correctness.                                                       *)

Ops == Reads \cup {"create", "promote", "deprecate", "reindex", "recover"}

LEMMA CallFields ==
  ASSUME NEW c \in AllCalls \cup {NoCall, Recovery}
  PROVE  /\ c.op \in Ops \cup {None}
         /\ c.text \in Texts \cup {None}
         /\ c.op = "create" => c.text \in Texts
         /\ c.op # "create" => c.text = None
         /\ c \in AllCalls => c.op \in Ops \ {"recover"}
         /\ c.op = "recover" <=> c = Recovery
BY DEF AllCalls, NoCall, Recovery, Ops, Reads, None

DiskOK ==
  /\ file \in [Tiers -> Documents \cup {NoDoc}]
  /\ row \in Rows \cup {NoRow}
  /\ told \in Tiers \cup {None}
  /\ serving \in BOOLEAN /\ cut \in BOOLEAN

Locals ==
  [call : AllCalls \cup {NoCall, Recovery}, text : Texts \cup {None},
   revision : Nat, first : Tiers \cup {None}, second : Tiers \cup {None},
   at : Tiers \cup {None}, then : PCs \cup {None},
   stale : Documents \cup {NoDoc}, saved : Documents \cup {NoDoc}]

Writing == {"write", "sync", "undo", "undo_unlink", "unlink",
            "unlink_first", "log"}
Upserting == {"refetch", "reload", "save"} \cup Writing

(* What the place of a thread in a handler says of its local variables.    *)
Ready(label, m) ==
  /\ label \in {"fetch", "load"} => m.call.op \in Reads \cup {"promote", "deprecate"}
  /\ label \in Upserting => m.call.op \in {"create", "promote", "deprecate"}
  /\ label \in {"refetch", "reload", "save", "write"} => m.text \in Texts
  /\ label \in Upserting => m.revision # 0
  /\ label \in {"load", "reload"} => m.at \in Tiers
  /\ label \in {"reload", "save", "scan"} => m.second \in Tiers
  /\ label \notin Writing => m.saved = NoDoc
  /\ m.saved # NoDoc => m.second \in Tiers

Placed(label, m) ==
  /\ Ready(label, m)
  /\ label \in {"migrate", "resync"} =>
       /\ m.at \in Tiers /\ m.stale \in Documents
       /\ m.then \in {"done", "refetch", "save", "scan"}
       /\ Ready(m.then, m)

LocalsOK ==
  /\ pc \in [Threads -> PCs]
  /\ mine \in [Threads -> Locals]
  /\ \A t \in Threads : Placed(pc[t], mine[t])

TypeInv == DiskOK /\ LocalsOK

LEMMA TypeInvTypeOK == TypeInv => TypeOK
<1> SUFFICES ASSUME TypeInv PROVE TypeOK
  OBVIOUS
<1>1. ASSUME NEW t \in Threads
      PROVE  /\ mine[t].call \in AllCalls \cup {NoCall, Recovery}
             /\ mine[t].text \in Texts \cup {None}
             /\ mine[t].revision \in Nat
             /\ {mine[t].first, mine[t].second, mine[t].at}
                  \subseteq Tiers \cup {None}
             /\ mine[t].then \in PCs \cup {None}
             /\ {mine[t].stale, mine[t].saved} \subseteq Documents \cup {NoDoc}
  <2>1. mine[t] \in Locals
    BY DEF TypeInv, LocalsOK
  <2> QED BY <2>1 DEF Locals
<1> QED BY <1>1 DEF TypeOK, TypeInv, DiskOK, LocalsOK

(* A thread moves to a place its local variables are right for.            *)
LEMMA LocalsStep ==
  ASSUME LocalsOK, NEW t \in Threads, NEW label \in PCs, NEW m \in Locals,
         Placed(label, m), Step(t, label, m)
  PROVE  LocalsOK'
<1>1. pc' = [pc EXCEPT ![t] = label] /\ mine' = [mine EXCEPT ![t] = m]
  BY DEF Step
<1>2. ASSUME NEW u \in Threads PROVE Placed(pc'[u], mine'[u])
  <2>1. CASE u = t
    BY <1>1, <2>1 DEF LocalsOK
  <2>2. CASE u # t
    <3>1. pc'[u] = pc[u] /\ mine'[u] = mine[u]
      BY <1>1, <2>2 DEF LocalsOK
    <3> QED BY <3>1 DEF LocalsOK
  <2> QED BY <2>1, <2>2
<1> QED BY <1>1, <1>2 DEF LocalsOK

LEMMA LocalsGoto ==
  ASSUME LocalsOK, NEW t \in Threads, NEW label \in PCs,
         Placed(label, mine[t]), Goto(t, label)
  PROVE  LocalsOK'
<1>1. mine[t] \in Locals
  BY DEF LocalsOK
<1> QED BY <1>1, LocalsStep DEF Goto

LEMMA IdlePlaced == Idle \in Locals /\ Placed("idle", Idle)
BY DEF Idle, Locals, Placed, Ready, Upserting, Writing, AllCalls, NoCall

LEMMA LocalsFinish ==
  ASSUME LocalsOK, NEW t \in Threads, Finish(t)
  PROVE  LocalsOK'
BY IdlePlaced, LocalsStep DEF Finish, PCs

LEMMA FilePut ==
  ASSUME DiskOK, NEW tier \in Tiers, NEW doc \in Documents \cup {NoDoc},
         PutFile(tier, doc)
  PROVE  /\ file' \in [Tiers -> Documents \cup {NoDoc}]
         /\ file'[tier] = doc
         /\ \A other \in Tiers \ {tier} : file'[other] = file[other]
BY DEF DiskOK, PutFile

LEMMA FileUnlinked ==
  ASSUME DiskOK, NEW tier \in Tiers \cup {None}, Unlink(tier)
  PROVE  /\ file' \in [Tiers -> Documents \cup {NoDoc}]
         /\ tier \in Tiers => file'[tier] = NoDoc
         /\ \A other \in Tiers \ {tier} : file'[other] = file[other]
<1>1. None \notin Tiers
  BY DEF None, Tiers
<1>2. CASE tier = None
  BY <1>1, <1>2 DEF Unlink, DiskOK
<1>3. CASE tier # None
  BY <1>3, FilePut DEF Unlink
<1> QED BY <1>2, <1>3

LEMMA TargetTiers ==
  /\ Target("create") = "candidate" /\ Target("promote") = "canonical"
  /\ Target("deprecate") = "deprecated"
  /\ Tiers = {"canonical", "candidate", "deprecated"} /\ None \notin Tiers
BY DEF Target, Tiers, None

(* The local variables and the two tiers of a thread at a label.           *)
LEMMA LocalsFields ==
  ASSUME LocalsOK, NEW t \in Threads
  PROVE  /\ pc[t] \in PCs /\ mine[t] \in Locals /\ Placed(pc[t], mine[t])
         /\ mine[t].call \in AllCalls \cup {NoCall, Recovery}
         /\ mine[t].text \in Texts \cup {None}
         /\ mine[t].revision \in Nat
         /\ mine[t].first \in Tiers \cup {None}
         /\ mine[t].second \in Tiers \cup {None}
         /\ mine[t].at \in Tiers \cup {None}
         /\ mine[t].stale \in Documents \cup {NoDoc}
         /\ mine[t].saved \in Documents \cup {NoDoc}
         /\ pc[t] \in Upserting => MyTarget(t) \in Tiers
<1>1. pc[t] \in PCs /\ mine[t] \in Locals /\ Placed(pc[t], mine[t])
  BY DEF LocalsOK
<1>2. pc[t] \in Upserting => MyTarget(t) \in Tiers
  BY <1>1, TargetTiers DEF Placed, Ready, MyTarget
<1> QED BY <1>1, <1>2 DEF Locals

LEMMA BeginType ==
  ASSUME TypeInv, NEW t \in Threads, Begin(t)
  PROVE  TypeInv'
<1>1. PICK c \in Calls :
        Step(t, CASE c.op = "create"  -> "refetch"
                  [] c.op = "reindex" -> "clear"
                  [] OTHER            -> "fetch",
             [Idle EXCEPT !.call = c, !.text = c.text, !.revision = 1])
  BY DEF Begin
<1> DEFINE m == [Idle EXCEPT !.call = c, !.text = c.text, !.revision = 1]
<1>2. c \in AllCalls
  BY CallsAssumption
<1>3. /\ c.op \in Reads \cup {"create", "promote", "deprecate", "reindex"}
      /\ c.text \in Texts \cup {None}
      /\ c.op = "create" => c.text \in Texts
  BY <1>2, CallFields DEF Ops
<1>4. /\ m \in Locals /\ m.call = c /\ m.text = c.text /\ m.revision = 1
      /\ m.saved = NoDoc
  <2>1. /\ m.call = c /\ m.text = c.text /\ m.revision = 1
        /\ m.saved = NoDoc
    BY DEF Idle
  <2>2. Idle \in Locals
    BY IdlePlaced
  <2>3. m \in Locals
    BY <1>2, <1>3, <2>2 DEF Locals
  <2> QED BY <2>1, <2>3
<1> HIDE DEF m
<1>5. CASE c.op = "create"
  <2>1. Step(t, "refetch", m)
    BY <1>1, <1>5 DEF m
  <2>2. Placed("refetch", m)
    BY <1>3, <1>4, <1>5 DEF Placed, Ready, Upserting, Writing
  <2>3. LocalsOK'
    BY <1>4, <2>1, <2>2, LocalsStep DEF TypeInv, PCs
  <2> QED BY <2>3 DEF Begin, TypeInv, DiskOK
<1>6. CASE c.op = "reindex"
  <2>1. Step(t, "clear", m)
    BY <1>1, <1>6 DEF m
  <2>2. Placed("clear", m)
    BY <1>4 DEF Placed, Ready, Upserting, Writing
  <2>3. LocalsOK'
    BY <1>4, <2>1, <2>2, LocalsStep DEF TypeInv, PCs
  <2> QED BY <2>3 DEF Begin, TypeInv, DiskOK
<1>7. CASE c.op \notin {"create", "reindex"}
  <2>1. Step(t, "fetch", m)
    BY <1>1, <1>7 DEF m
  <2>2. Placed("fetch", m)
    BY <1>3, <1>4, <1>7 DEF Placed, Ready, Upserting, Writing
  <2>3. LocalsOK'
    BY <1>4, <2>1, <2>2, LocalsStep DEF TypeInv, PCs
  <2> QED BY <2>3 DEF Begin, TypeInv, DiskOK
<1> QED BY <1>5, <1>6, <1>7

(* A document that was loaded: the thread goes on, or completes it first.  *)
LEMMA ContinueType ==
  ASSUME LocalsOK, NEW t \in Threads,
         NEW doc \in Documents, NEW next \in {"done", "refetch", "save", "scan"},
         NEW m \in Locals, Ready(next, m), m.at \in Tiers, m.saved = NoDoc,
         Continue(t, doc, next, m)
  PROVE  LocalsOK'
<1>1. CASE doc.legacy
  <2> DEFINE n == [m EXCEPT !.stale = doc, !.then = next]
  <2>1. Step(t, "migrate", n)
    BY <1>1 DEF Continue
  <2>2. /\ n \in Locals /\ n.at = m.at /\ n.stale = doc /\ n.then = next
        /\ n.call = m.call /\ n.text = m.text /\ n.revision = m.revision
        /\ n.second = m.second /\ n.saved = m.saved
    BY DEF Locals, PCs
  <2> HIDE DEF n
  <2>3. Placed("migrate", n)
    BY <2>2 DEF Placed, Ready, Upserting, Writing
  <2> QED BY <2>1, <2>2, <2>3, LocalsStep DEF PCs
<1>2. CASE ~doc.legacy
  <2>1. Placed(next, m)
    BY DEF Placed
  <2> QED BY <1>2, <2>1, LocalsStep DEF Continue, PCs
<1> QED BY <1>1, <1>2

LEMMA ReadType ==
  ASSUME TypeInv, NEW t \in Threads, Read(t)
  PROVE  TypeInv'
<1> USE DEF TypeInv
<1> DEFINE m == mine[t]
<1>0. /\ m \in Locals /\ Placed(pc[t], m) /\ m.text \in Texts \cup {None}
      /\ m.revision \in Nat /\ m.saved \in Documents \cup {NoDoc}
      /\ m.stale \in Documents \cup {NoDoc} /\ m.at \in Tiers \cup {None}
  BY LocalsFields
<1>1. CASE Fetch(t)
  <2> DEFINE n == [m EXCEPT !.first = row.tier, !.at = row.tier]
  <2>1. CASE row = NoRow
    <3>1. Placed("done", m) /\ Placed("missing", m)
      BY <1>0, <1>1 DEF Fetch, Placed, Ready, Upserting, Writing
    <3>2. LocalsOK'
      BY <1>1, <2>1, <3>1, LocalsGoto DEF Fetch, Unlisted, PCs
    <3> QED BY <1>1, <3>2 DEF Fetch, DiskOK
  <2>2. CASE row # NoRow /\ Refused(m.call.op, row.tier)
    <3>1. LocalsOK'
      BY <1>1, <2>2, LocalsFinish DEF Fetch
    <3> QED BY <1>1, <3>1 DEF Fetch, DiskOK
  <2>3. CASE row # NoRow /\ ~Refused(m.call.op, row.tier)
    <3>1. row.tier \in Tiers
      BY <2>3, RowFields DEF DiskOK
    <3>2. /\ n \in Locals /\ n.at = row.tier /\ n.call = m.call
          /\ n.saved = m.saved /\ n.second = m.second
      BY <1>0, <3>1 DEF Locals
    <3>3. Step(t, "load", n)
      BY <1>1, <2>3 DEF Fetch
    <3> HIDE DEF n
    <3>4. Placed("load", n)
      BY <1>0, <1>1, <3>1, <3>2 DEF Fetch, Placed, Ready, Upserting, Writing
    <3>5. LocalsOK'
      BY <3>2, <3>3, <3>4, LocalsStep DEF PCs
    <3> QED BY <1>1, <3>5 DEF Fetch, DiskOK
  <2> QED BY <2>1, <2>2, <2>3
<1>2. CASE Load(t)
  <2> DEFINE doc == file[m.at]
             n == [m EXCEPT !.text = doc.text, !.revision = doc.revision]
             next == IF m.call.op \in Reads THEN "done" ELSE "refetch"
  <2>1. /\ m.call.op \in Reads \cup {"promote", "deprecate"}
        /\ m.at \in Tiers /\ m.saved = NoDoc
    BY <1>0, <1>2 DEF Load, Placed, Ready, Upserting, Writing
  <2>2. doc \in Documents \cup {NoDoc}
    BY <2>1 DEF DiskOK
  <2>3. CASE doc = NoDoc
    <3>1. Placed("done", m) /\ Placed("missing", m)
      BY <1>0, <2>1 DEF Placed, Ready, Upserting, Writing
    <3>2. LocalsOK'
      BY <1>2, <2>3, <3>1, LocalsGoto DEF Load, Unloaded, PCs
    <3> QED BY <1>2, <3>2 DEF Load, DiskOK
  <2>4. CASE doc # NoDoc
    <3>1. doc \in Documents /\ doc.text \in Texts /\ doc.revision \in Nat
          /\ doc.revision # 0
      BY <2>2, <2>4, DocumentFields
    <3>2. /\ n \in Locals /\ n.at = m.at /\ n.call = m.call
          /\ n.saved = m.saved /\ n.second = m.second
          /\ n.text = doc.text /\ n.revision = doc.revision
      BY <1>0, <3>1 DEF Locals
    <3>3. Continue(t, doc, next, n)
      BY <1>2, <2>4 DEF Load
    <3>4. next \in {"done", "refetch", "save", "scan"}
      OBVIOUS
    <3>5. m.call.op \notin Reads => m.call.op \in {"promote", "deprecate"}
      BY <2>1
    <3>6. Ready(next, n)
      <4> HIDE DEF n
      <4> QED BY <2>1, <3>1, <3>2, <3>5 DEF Ready, Upserting, Writing
    <3> HIDE DEF n, next, doc
    <3>7. LocalsOK'
      BY <2>1, <3>1, <3>2, <3>3, <3>4, <3>6, ContinueType
    <3> QED BY <1>2, <3>7 DEF Load, DiskOK
  <2> QED BY <2>3, <2>4
<1>3. CASE Migrate(t)
  <2>1. m.at \in Tiers /\ m.stale \in Documents
    BY <1>0, <1>3 DEF Migrate, Placed
  <2>2. DiskOK'
    BY <1>3, <2>1, FilePut, DocumentMigrated DEF Migrate, DiskOK
  <2>3. Placed("resync", m)
    BY <1>0, <1>3 DEF Migrate, Placed, Ready, Upserting, Writing
  <2>4. LocalsOK'
    BY <1>3, <2>3, LocalsGoto DEF Migrate, PCs
  <2> QED BY <2>2, <2>4
<1>4. CASE Resync(t)
  <2> DEFINE n == [m EXCEPT !.stale = NoDoc, !.then = None]
  <2>1. /\ m.at \in Tiers /\ m.stale \in Documents
        /\ m.then \in {"done", "refetch", "save", "scan"} /\ Ready(m.then, m)
    BY <1>0, <1>4 DEF Resync, Placed
  <2>2. DiskOK'
    <3>1. m.stale.revision \in Nat \ {0}
      BY <2>1, DocumentFields, TextsAssumption DEF Documents
    <3> QED BY <1>4, <2>1, <3>1, RowMade DEF Resync, PutRow, DiskOK
  <2>3. /\ n \in Locals /\ n.at = m.at /\ n.call = m.call
        /\ n.saved = m.saved /\ n.second = m.second
        /\ n.text = m.text /\ n.revision = m.revision
    BY <1>0 DEF Locals
  <2>4. Step(t, m.then, n)
    BY <1>4 DEF Resync
  <2> HIDE DEF n
  <2>5. Placed(m.then, n)
    BY <2>1, <2>3 DEF Placed, Ready, Upserting, Writing
  <2>6. LocalsOK'
    BY <2>1, <2>3, <2>4, <2>5, LocalsStep DEF PCs
  <2> QED BY <2>2, <2>6
<1>5. CASE Answer(t)
  BY <1>5, LocalsFinish DEF Answer, DiskOK
<1> QED BY <1>1, <1>2, <1>3, <1>4, <1>5 DEF Read

LEMMA UpsertType ==
  ASSUME TypeInv, NEW t \in Threads, Upsert(t)
  PROVE  TypeInv'
<1> USE DEF TypeInv
<1> DEFINE m == mine[t]
           new == [text |-> m.text, revision |-> m.revision, legacy |-> FALSE]
<1>0. /\ m \in Locals /\ Placed(pc[t], m) /\ m.text \in Texts \cup {None}
      /\ m.revision \in Nat /\ m.second \in Tiers \cup {None}
      /\ m.saved \in Documents \cup {NoDoc}
      /\ pc[t] \in Upserting => MyTarget(t) \in Tiers
  BY LocalsFields
<1>1. CASE Refetch(t)
  <2>1. CASE row = NoRow
    <3>1. Placed("write", m)
      BY <1>0, <1>1 DEF Refetch, Placed, Ready, Upserting, Writing
    <3>2. LocalsOK'
      BY <1>1, <2>1, <3>1, LocalsGoto DEF Refetch, PCs
    <3> QED BY <1>1, <3>2 DEF Refetch, DiskOK
  <2>2. CASE row # NoRow
    <3> DEFINE n == [m EXCEPT !.second = row.tier, !.at = row.tier]
    <3>1. row.tier \in Tiers
      BY <2>2, RowFields DEF DiskOK
    <3>2. /\ n \in Locals /\ n.at = row.tier /\ n.second = row.tier
          /\ n.call = m.call /\ n.saved = m.saved
          /\ n.text = m.text /\ n.revision = m.revision
      BY <1>0, <3>1 DEF Locals
    <3>3. Step(t, "reload", n)
      BY <1>1, <2>2 DEF Refetch
    <3> HIDE DEF n
    <3>4. Placed("reload", n)
      BY <1>0, <1>1, <3>1, <3>2 DEF Refetch, Placed, Ready, Upserting, Writing
    <3>5. LocalsOK'
      BY <3>2, <3>3, <3>4, LocalsStep DEF PCs
    <3> QED BY <1>1, <3>5 DEF Refetch, DiskOK
  <2> QED BY <2>1, <2>2
<1>2. CASE Reload(t)
  <2> DEFINE doc == file[m.at]
             n == [m EXCEPT !.revision = doc.revision + 1]
  <2>1. /\ m.call.op \in {"create", "promote", "deprecate"}
        /\ m.text \in Texts /\ m.at \in Tiers /\ m.second \in Tiers
    BY <1>0, <1>2 DEF Reload, Placed, Ready, Upserting, Writing
  <2>2. doc \in Documents \cup {NoDoc}
    BY <2>1 DEF DiskOK
  <2>3. CASE doc = NoDoc
    <3>1. Placed("missing", m)
      BY <1>0, <1>2 DEF Reload, Placed, Ready, Upserting, Writing
    <3>2. LocalsOK'
      BY <1>2, <2>3, <3>1, LocalsGoto DEF Reload, PCs
    <3> QED BY <1>2, <3>2 DEF Reload, DiskOK
  <2>4. CASE doc # NoDoc
    <3>1. doc \in Documents /\ doc.revision \in Nat
      BY <2>2, <2>4, DocumentFields
    <3>2. /\ n \in Locals /\ n.at = m.at /\ n.call = m.call
          /\ n.saved = m.saved /\ n.second = m.second
          /\ n.text = m.text /\ n.revision # 0
      BY <1>0, <3>1 DEF Locals
    <3>3. Continue(t, doc, "save", n)
      BY <1>2, <2>4 DEF Reload
    <3>4. m.saved = NoDoc
      BY <1>0, <1>2 DEF Reload, Placed, Ready, Upserting, Writing
    <3> HIDE DEF n, doc
    <3>5. Ready("save", n)
      BY <2>1, <3>2, <3>4 DEF Ready, Upserting, Writing
    <3>6. LocalsOK'
      BY <2>1, <3>1, <3>2, <3>3, <3>4, <3>5, ContinueType
    <3> QED BY <1>2, <3>6 DEF Reload, DiskOK
  <2> QED BY <2>3, <2>4
<1>3. CASE Save(t)
  <2> DEFINE n == [m EXCEPT !.saved = file[m.second]]
  <2>1. m.second \in Tiers
    BY <1>0, <1>3 DEF Save, Placed, Ready
  <2>2. /\ n \in Locals /\ n.call = m.call /\ n.second = m.second
        /\ n.text = m.text /\ n.revision = m.revision
    BY <1>0, <2>1 DEF Locals, DiskOK
  <2>3. Step(t, "write", n)
    BY <1>3 DEF Save
  <2> HIDE DEF n
  <2>4. Placed("write", n)
    BY <1>0, <1>3, <2>1, <2>2 DEF Save, Placed, Ready, Upserting, Writing
  <2>5. LocalsOK'
    BY <2>2, <2>3, <2>4, LocalsStep DEF PCs
  <2> QED BY <1>3, <2>5 DEF Save, DiskOK
<1>4. CASE Write(t)
  <2>1. MyTarget(t) \in Tiers /\ m.text \in Texts /\ m.revision # 0
    BY <1>0, <1>4 DEF Write, Placed, Ready, Upserting, Writing
  <2>2. new \in Documents
    BY <1>0, <2>1, DocumentMade
  <2>3. PutFile(MyTarget(t), new)
    BY <1>4 DEF Write
  <2>4. Placed("sync", m)
    BY <1>0, <1>4 DEF Write, Placed, Ready, Upserting, Writing
  <2>5. LocalsOK'
    BY <1>4, <2>4, LocalsGoto DEF Write, PCs
  <2> HIDE DEF new
  <2>6. file' \in [Tiers -> Documents \cup {NoDoc}]
    BY <2>1, <2>2, <2>3, FilePut
  <2> QED BY <1>4, <2>5, <2>6 DEF Write, DiskOK
<1>5. CASE Sync(t)
  <2>1. MyTarget(t) \in Tiers /\ m.revision # 0
    BY <1>0, <1>5 DEF Sync, Placed, Ready, Upserting, Writing
  <2>2. row' \in Rows
    BY <1>0, <1>5, <2>1, RowMade DEF Sync, PutRow
  <2>3. Placed("unlink", m)
    BY <1>0, <1>5 DEF Sync, Placed, Ready, Upserting, Writing
  <2>4. LocalsOK'
    BY <1>5, <2>3, LocalsGoto DEF Sync, PCs
  <2> QED BY <1>5, <2>2, <2>4 DEF Sync, DiskOK
<1>6. CASE SyncFails(t)
  <2>1. CASE pc[t] = "sync" /\ Goto(t, "undo")
    <3>1. Placed("undo", m)
      BY <1>0, <2>1 DEF Placed, Ready, Upserting, Writing
    <3>2. LocalsOK'
      BY <2>1, <3>1, LocalsGoto DEF PCs
    <3> QED BY <1>6, <3>2 DEF SyncFails, DiskOK
  <2>2. CASE Finish(t)
    BY <1>6, <2>2, LocalsFinish DEF SyncFails, DiskOK
  <2> QED BY <1>6, <2>1, <2>2 DEF SyncFails
<1>7. CASE Undo(t)
  <2>1. m.saved # NoDoc => m.second \in Tiers
    BY <1>0 DEF Placed, Ready
  <2>2. file' \in [Tiers -> Documents \cup {NoDoc}]
    BY <1>0, <1>7, <2>1, FilePut DEF Undo, DiskOK
  <2>3. Placed("undo_unlink", m)
    BY <1>0, <1>7 DEF Undo, Placed, Ready, Upserting, Writing
  <2>4. LocalsOK'
    BY <1>7, <2>3, LocalsGoto, LocalsFinish DEF Undo, PCs
  <2> QED BY <1>7, <2>2, <2>4 DEF Undo, DiskOK
<1>8. CASE UndoUnlink(t)
  <2>1. MyTarget(t) \in Tiers
    BY <1>0, <1>8 DEF UndoUnlink, Upserting, Writing
  <2>2. file' \in [Tiers -> Documents \cup {NoDoc}]
    BY <1>8, <2>1, FileUnlinked DEF UndoUnlink
  <2> QED BY <1>8, <2>2, LocalsFinish DEF UndoUnlink, DiskOK
<1> QED BY <1>1, <1>2, <1>3, <1>4, <1>5, <1>6, <1>7, <1>8 DEF Upsert

LEMMA SettleType ==
  ASSUME TypeInv, NEW t \in Threads, Settle(t)
  PROVE  TypeInv'
<1> USE DEF TypeInv
<1> DEFINE m == mine[t]
<1>0. /\ m \in Locals /\ Placed(pc[t], m)
      /\ m.first \in Tiers \cup {None} /\ m.second \in Tiers \cup {None}
      /\ pc[t] \in Upserting => MyTarget(t) \in Tiers
  BY LocalsFields
<1>1. CASE UnlinkFormer(t)
  <2> DEFINE former == IF m.second = MyTarget(t) THEN None ELSE m.second
             next == IF m.call.op = "create" THEN "log" ELSE "unlink_first"
  <2>1. former \in Tiers \cup {None} /\ Unlink(former)
    BY <1>0, <1>1 DEF UnlinkFormer
  <2> HIDE DEF former
  <2>2. file' \in [Tiers -> Documents \cup {NoDoc}]
    BY <2>1, FileUnlinked
  <2>3. next \in PCs /\ Placed(next, m)
    BY <1>0, <1>1 DEF UnlinkFormer, Placed, Ready, Upserting, Writing, PCs
  <2>4. Goto(t, next)
    BY <1>1 DEF UnlinkFormer
  <2> HIDE DEF next
  <2>5. LocalsOK'
    BY <2>3, <2>4, LocalsGoto
  <2> QED BY <1>1, <2>2, <2>5 DEF UnlinkFormer, DiskOK
<1>2. CASE UnlinkFirst(t)
  <2>1. file' \in [Tiers -> Documents \cup {NoDoc}]
    BY <1>0, <1>2, FileUnlinked DEF UnlinkFirst
  <2>2. Placed("log", m)
    BY <1>0, <1>2 DEF UnlinkFirst, Placed, Ready, Upserting, Writing
  <2>3. LocalsOK'
    BY <1>2, <2>2, LocalsGoto DEF UnlinkFirst, PCs
  <2> QED BY <1>2, <2>1, <2>3 DEF UnlinkFirst, DiskOK
<1>3. CASE Log(t)
  <2>1. MyTarget(t) \in Tiers
    BY <1>0, <1>3 DEF Log, Upserting, Writing
  <2> QED BY <1>3, <2>1, LocalsFinish DEF Log, DiskOK
<1> QED BY <1>1, <1>2, <1>3 DEF Settle

LEMMA NextTiers ==
  /\ NextTier("canonical") = "candidate"
  /\ NextTier("candidate") = "deprecated"
  /\ NextTier("deprecated") = None
BY DEF NextTier, None

LEMMA RebuildType ==
  ASSUME TypeInv, NEW t \in Threads, Rebuild(t)
  PROVE  TypeInv'
<1> USE DEF TypeInv
<1> DEFINE m == mine[t]
<1>0. m \in Locals /\ Placed(pc[t], m)
  BY LocalsFields
<1>1. CASE Clear(t)
  <2> DEFINE n == [m EXCEPT !.second = "canonical"]
  <2>1. /\ n \in Locals /\ n.call = m.call /\ n.second = "canonical"
        /\ n.saved = m.saved
    BY <1>0, TargetTiers DEF Locals
  <2>2. Step(t, "scan", n)
    BY <1>1 DEF Clear
  <2> HIDE DEF n
  <2>3. Placed("scan", n)
    BY <1>0, <1>1, <2>1, TargetTiers DEF Clear, Placed, Ready, Upserting, Writing
  <2>4. LocalsOK'
    BY <2>1, <2>2, <2>3, LocalsStep DEF PCs
  <2> QED BY <1>1, <2>4 DEF Clear, DiskOK
<1>2. CASE Scan(t)
  <2> DEFINE tier == m.second
             doc == file[tier]
             next == IF NextTier(tier) = None THEN "done" ELSE "scan"
             moved == [m EXCEPT !.second = NextTier(tier), !.at = tier]
             loaded == [moved EXCEPT !.stale = doc, !.then = next]
  <2>1. tier \in Tiers /\ m.saved = NoDoc
    BY <1>0, <1>2 DEF Scan, Placed, Ready, Writing
  <2>2. /\ doc \in Documents \cup {NoDoc}
        /\ NextTier(tier) \in Tiers \cup {None}
        /\ next \in {"done", "scan"}
        /\ next = "scan" => NextTier(tier) \in Tiers
    BY <2>1, NextTiers, TargetTiers DEF DiskOK
  <2>3. /\ moved \in Locals /\ moved.call = m.call /\ moved.at = tier
        /\ moved.second = NextTier(tier) /\ moved.saved = m.saved
    BY <1>0, <2>1, <2>2 DEF Locals
  <2>4. CASE doc = NoDoc
    <3>1. Step(t, next, moved)
      BY <1>2, <2>4 DEF Scan
    <3> HIDE DEF moved, next
    <3>2. Placed(next, moved)
      BY <2>1, <2>2, <2>3 DEF Placed, Ready, Upserting, Writing
    <3>3. LocalsOK'
      BY <2>2, <2>3, <3>1, <3>2, LocalsStep DEF PCs
    <3> QED BY <1>2, <3>3 DEF Scan, DiskOK
  <2>5. CASE doc # NoDoc
    <3> DEFINE label == IF doc.legacy THEN "migrate" ELSE "resync"
    <3>1. Step(t, label, loaded)
      BY <1>2, <2>5 DEF Scan
    <3> HIDE DEF m, tier, doc, moved, next
    <3>2. /\ loaded \in Locals /\ loaded.call = m.call /\ loaded.at = tier
          /\ loaded.second = NextTier(tier) /\ loaded.saved = m.saved
          /\ loaded.stale = doc /\ loaded.then = next
      <4>1. next \in PCs /\ doc \in Documents \cup {NoDoc} /\ moved \in Locals
        BY <2>2, <2>3 DEF PCs
      <4>2. /\ loaded \in Locals /\ loaded.call = moved.call
            /\ loaded.at = moved.at /\ loaded.second = moved.second
            /\ loaded.saved = moved.saved
            /\ loaded.stale = doc /\ loaded.then = next
        BY <4>1 DEF Locals
      <4> HIDE DEF loaded
      <4> QED BY <2>3, <4>2
    <3>3. label \in {"migrate", "resync"}
      OBVIOUS
    <3> HIDE DEF loaded, label
    <3>4. Placed(label, loaded)
      BY <2>1, <2>2, <2>5, <3>2, <3>3 DEF Placed, Ready, Upserting, Writing
    <3>5. LocalsOK'
      BY <3>1, <3>2, <3>3, <3>4, LocalsStep DEF PCs
    <3> QED BY <1>2, <3>5 DEF Scan, DiskOK
  <2> QED BY <2>4, <2>5
<1>3. CASE Restart(t)
  <2> DEFINE n == [Idle EXCEPT !.call = Recovery]
  <2>1. CASE Step(t, "clear", n)
    <3>1. n.saved = NoDoc
      BY DEF Idle
    <3>2. n \in Locals
      <4>1. Idle \in Locals
        BY IdlePlaced
      <4> QED BY <4>1 DEF Locals
    <3> HIDE DEF n
    <3>3. Placed("clear", n)
      BY <3>1 DEF Placed, Ready, Upserting, Writing
    <3>4. LocalsOK'
      BY <2>1, <3>2, <3>3, LocalsStep DEF PCs
    <3> QED BY <1>3, <3>4 DEF Restart, DiskOK
  <2>2. CASE ~Step(t, "clear", n)
    BY <1>3, <2>2 DEF Restart, DiskOK, LocalsOK
  <2> QED BY <2>1, <2>2
<1>4. CASE Recovered(t)
  BY <1>4, LocalsFinish DEF Recovered, DiskOK
<1> QED BY <1>1, <1>2, <1>3, <1>4 DEF Rebuild

LEMMA CrashType ==
  ASSUME TypeInv, Crash
  PROVE  TypeInv'
<1>1. LocalsOK'
  BY IdlePlaced DEF Crash, LocalsOK, PCs
<1> QED BY <1>1 DEF Crash, TypeInv, DiskOK

LEMMA InitType == Init => TypeInv
<1> SUFFICES ASSUME Init PROVE TypeInv
  OBVIOUS
<1>1. PICK seed \in Seeds : file = seed.file /\ row = seed.row
  BY DEF Init
<1>2. DiskOK
  BY <1>1, SeedsAssumption, RowFields DEF Init, DiskOK
<1>3. LocalsOK
  BY IdlePlaced DEF Init, LocalsOK, PCs
<1> QED BY <1>2, <1>3 DEF TypeInv

LEMMA TypeStep == TypeInv /\ [Next]_vars => TypeInv'
<1> SUFFICES ASSUME TypeInv, [Next]_vars PROVE TypeInv'
  OBVIOUS
<1>1. CASE Crash
  BY <1>1, CrashType
<1>2. ASSUME NEW t \in Threads,
             Begin(t) \/ Read(t) \/ Upsert(t) \/ Settle(t) \/ Rebuild(t)
      PROVE  TypeInv'
  BY <1>2, BeginType, ReadType, UpsertType, SettleType, RebuildType
<1>3. CASE UNCHANGED vars
  BY <1>3 DEF vars, TypeInv, DiskOK, LocalsOK
<1> QED BY <1>1, <1>2, <1>3 DEF Next

LEMMA TypeAlways == Spec => []TypeInv
<1>1. Init => TypeInv
  BY InitType
<1>2. TypeInv /\ [Next]_vars => TypeInv'
  BY TypeStep
<1> QED BY <1>1, <1>2, PTL DEF Spec

(* Whatever requests overlap, and wherever the server is cut off, files,   *)
(* manifest, ledger and local variables stay of their types: no document   *)
(* without text or with revision 0 is written, no row without a tier.      *)
THEOREM TypeCorrect == Spec => []TypeOK
BY TypeAlways, TypeInvTypeOK, PTL

-----------------------------------------------------------------------------
(* Recovery.                                                               *)

LEMMA WinnerIs ==
  ASSUME NEW files
  PROVE  /\ Winner(files) \in Tiers \cup {None}
         /\ Winner(files) = "deprecated" <=> files["deprecated"] # NoDoc
         /\ Winner(files) = "candidate" <=>
              files["deprecated"] = NoDoc /\ files["candidate"] # NoDoc
         /\ Winner(files) = "canonical" <=>
              /\ files["deprecated"] = NoDoc /\ files["candidate"] = NoDoc
              /\ files["canonical"] # NoDoc
         /\ Winner(files) = None <=> \A tier \in Tiers : files[tier] = NoDoc
BY TargetTiers DEF Winner

(* The tier a manifest names that is filled from the tiers before the next. *)
Filled(next, tier, files) ==
  /\ next = "canonical" => tier = None
  /\ next = "candidate" =>
       tier = IF files["canonical"] # NoDoc THEN "canonical" ELSE None
  /\ next = "deprecated" =>
       tier = IF files["candidate"] # NoDoc THEN "candidate"
              ELSE IF files["canonical"] # NoDoc THEN "canonical" ELSE None
  /\ next = None => tier = Winner(files)

Recovering(t) ==
  /\ mine[t].call = Recovery
  /\ pc[t] \in {"clear", "scan", "migrate", "resync", "done"}
  /\ pc[t] = "scan" => Filled(mine[t].second, row.tier, file)
  /\ pc[t] \in {"migrate", "resync"} =>
       /\ Filled(mine[t].at, row.tier, file) /\ file[mine[t].at] # NoDoc
       /\ file[mine[t].at].text = mine[t].stale.text
       /\ file[mine[t].at].revision = mine[t].stale.revision
       /\ mine[t].second = NextTier(mine[t].at)
       /\ mine[t].then = IF mine[t].second = None THEN "done" ELSE "scan"
  /\ pc[t] = "done" => Filled(None, row.tier, file)

(* Before the server is up only one thread works, and it rebuilds.         *)
RecoveryInv ==
  ~serving => \A t \in Threads : pc[t] # "idle" =>
                /\ Recovering(t)
                /\ \A u \in Threads \ {t} : pc[u] = "idle"

LEMMA RecoveryMoved ==
  ASSUME TypeInv, NEW t \in Threads,
         \A u \in Threads \ {t} : pc[u] = "idle",
         NEW label, pc' = [pc EXCEPT ![t] = label],
         label # "idle" => Recovering(t)'
  PROVE  RecoveryInv'
<1>1. /\ pc'[t] = label
      /\ \A u \in Threads \ {t} : pc'[u] = "idle"
  BY DEF TypeInv, LocalsOK
<1> QED BY <1>1 DEF RecoveryInv

(* The row of a tier that is scanned: what was scanned before it gives way. *)
LEMMA FilledNext ==
  ASSUME NEW tier \in Tiers, NEW files, NEW old, NEW new,
         Filled(tier, old, files),
         files[tier] # NoDoc => new = tier,
         files[tier] = NoDoc => new = old
  PROVE  Filled(NextTier(tier), new, files)
<1>1. CASE tier = "canonical"
  <2>1. new = IF files["canonical"] # NoDoc THEN "canonical" ELSE None
    BY <1>1 DEF Filled
  <2>2. NextTier(tier) = "candidate"
    BY <1>1, NextTiers
  <2> QED BY <2>1, <2>2 DEF Filled, None
<1>2. CASE tier = "candidate"
  <2>1. new = IF files["candidate"] # NoDoc THEN "candidate"
              ELSE IF files["canonical"] # NoDoc THEN "canonical" ELSE None
    BY <1>2 DEF Filled
  <2>2. NextTier(tier) = "deprecated"
    BY <1>2, NextTiers
  <2> QED BY <2>1, <2>2 DEF Filled, None
<1>3. CASE tier = "deprecated"
  <2>1. new = Winner(files)
    <3>1. CASE files["deprecated"] # NoDoc
      BY <1>3, <3>1, WinnerIs
    <3>2. CASE files["deprecated"] = NoDoc
      BY <1>3, <3>2, WinnerIs, TargetTiers DEF Filled
    <3> QED BY <3>1, <3>2
  <2>2. NextTier(tier) = None
    BY <1>3, NextTiers
  <2> QED BY <2>1, <2>2 DEF Filled, None
<1> QED BY <1>1, <1>2, <1>3, TargetTiers

LEMMA RecoveryScan ==
  ASSUME TypeInv, NEW t \in Threads, Recovering(t), Scan(t)
  PROVE  pc' = [pc EXCEPT ![t] = pc'[t]] /\ Recovering(t)'
<1> DEFINE m == mine[t]
           tier == m.second
           doc == file[tier]
           next == IF NextTier(tier) = None THEN "done" ELSE "scan"
           moved == [m EXCEPT !.second = NextTier(tier), !.at = tier]
           loaded == [moved EXCEPT !.stale = doc, !.then = next]
           label == IF doc.legacy THEN "migrate" ELSE "resync"
<1>1. /\ m \in Locals /\ tier \in Tiers /\ m.call = Recovery /\ Filled(tier, row.tier, file)
      /\ UNCHANGED <<file, row, serving>>
  <2>1. m \in Locals /\ Placed(pc[t], m)
    BY LocalsFields DEF TypeInv
  <2> QED BY <2>1 DEF Scan, Recovering, Placed, Ready
<1>2. moved.call = Recovery /\ moved.second = NextTier(tier) /\ moved.at = tier
  BY <1>1 DEF Locals
<1>3. CASE doc = NoDoc
  <2>1. Step(t, next, moved)
    BY <1>3 DEF Scan
  <2> HIDE DEF moved
  <2>2. pc' = [pc EXCEPT ![t] = next] /\ pc'[t] = next /\ mine'[t] = moved
    BY <2>1 DEF Step, TypeInv, LocalsOK
  <2>3. Filled(NextTier(tier), row'.tier, file')
    BY <1>1, <1>3, FilledNext
  <2>4. next = "done" => NextTier(tier) = None
    OBVIOUS
  <2>5. next \in {"done", "scan"}
    OBVIOUS
  <2> HIDE DEF next
  <2>6. mine'[t].call = Recovery /\ mine'[t].second = NextTier(tier)
    BY <1>2, <2>2
  <2>7. next = "scan" => Filled(mine'[t].second, row'.tier, file')
    <3>1. NextTier(tier) = mine'[t].second
      BY <2>6
    <3> QED BY <2>3, <3>1 DEF Filled
  <2>8. next = "done" => Filled(None, row'.tier, file')
    BY <2>3, <2>4
  <2> QED BY <2>2, <2>5, <2>6, <2>7, <2>8 DEF Recovering
<1>4. CASE doc # NoDoc
  <2>1. Step(t, label, loaded)
    BY <1>4 DEF Scan
  <2>2. /\ loaded.call = Recovery /\ loaded.second = NextTier(tier)
        /\ loaded.at = tier /\ loaded.stale = doc /\ loaded.then = next
    <3> HIDE DEF next, doc
    <3>1. /\ loaded.call = moved.call /\ loaded.second = moved.second
          /\ loaded.at = moved.at /\ loaded.stale = doc /\ loaded.then = next
      BY <1>1 DEF Locals
    <3> HIDE DEF loaded, moved
    <3> QED BY <1>2, <3>1
  <2>3. label \in {"migrate", "resync"}
    OBVIOUS
  <2> HIDE DEF loaded, label
  <2>4. pc' = [pc EXCEPT ![t] = label] /\ pc'[t] = label /\ mine'[t] = loaded
    BY <2>1 DEF Step, TypeInv, LocalsOK
  <2>5. Filled(tier, row'.tier, file')
    BY <1>1 DEF Filled
  <2>6. file'[tier] = doc
    BY <1>1
  <2> QED BY <1>4, <2>2, <2>3, <2>4, <2>5, <2>6 DEF Recovering, Filled
<1> QED BY <1>3, <1>4

LEMMA RecoveryStep == TypeInv /\ RecoveryInv /\ [Next]_vars => RecoveryInv'
<1> SUFFICES ASSUME TypeInv, RecoveryInv, [Next]_vars PROVE RecoveryInv'
  OBVIOUS
<1>1. CASE Crash
  BY <1>1 DEF Crash, RecoveryInv
<1>2. CASE UNCHANGED vars
  BY <1>2 DEF vars, RecoveryInv, Recovering, Filled
<1>3. ASSUME NEW t \in Threads,
             Begin(t) \/ Read(t) \/ Upsert(t) \/ Settle(t) \/ Rebuild(t)
      PROVE  RecoveryInv'
  <2>1. CASE serving'
    BY <2>1 DEF RecoveryInv
  <2>2. CASE ~serving'
    <3>1. ~serving
      BY <1>3, <2>2
         DEF Begin, Read, Fetch, Load, Migrate, Resync, Answer,
             Upsert, Refetch, Reload, Save, Write, Sync, SyncFails, Undo,
             UndoUnlink, Settle, UnlinkFormer, UnlinkFirst, Log,
             Rebuild, Clear, Scan, Restart, Recovered
    <3>2. mine[t] \in Locals /\ Placed(pc[t], mine[t])
      BY LocalsFields DEF TypeInv
    <3>3. CASE Restart(t)
      <4>1. Step(t, "clear", [Idle EXCEPT !.call = Recovery])
        BY <2>2, <3>3 DEF Restart
      <4>2. mine'[t].call = Recovery /\ pc'[t] = "clear"
        BY <4>1 DEF Step, Idle, TypeInv, LocalsOK
      <4>3. Recovering(t)'
        BY <4>2 DEF Recovering
      <4> QED BY <3>3, <4>1, <4>3, RecoveryMoved DEF Step, Restart
    <3>4. CASE ~Restart(t)
      <4>1. pc[t] # "idle"
        BY <1>3, <3>1, <3>4
           DEF Begin, Read, Fetch, Load, Migrate, Resync, Answer,
               Upsert, Refetch, Reload, Save, Write, Sync, SyncFails, Undo,
               UndoUnlink, Settle, UnlinkFormer, UnlinkFirst, Log,
               Rebuild, Clear, Scan, Recovered
      <4>2. Recovering(t) /\ \A u \in Threads \ {t} : pc[u] = "idle"
        BY <3>1, <4>1 DEF RecoveryInv
      <4>3. Clear(t) \/ Scan(t) \/ Migrate(t) \/ Resync(t)
        BY <1>3, <2>2, <3>4, <4>1, <4>2
           DEF Recovering, Begin, Read, Fetch, Load, Answer,
               Upsert, Refetch, Reload, Save, Write, Sync, SyncFails, Undo,
               UndoUnlink, Settle, UnlinkFormer, UnlinkFirst, Log,
               Rebuild, Recovered
      <4>4. CASE Scan(t)
        BY <4>2, <4>4, RecoveryScan, RecoveryMoved
      <4>5. CASE Clear(t)
        <5>1. /\ pc' = [pc EXCEPT ![t] = "scan"] /\ pc'[t] = "scan"
              /\ mine'[t] = [mine[t] EXCEPT !.second = "canonical"]
              /\ row' = NoRow
          BY <4>5 DEF Clear, Step, TypeInv, LocalsOK
        <5>2. mine'[t].call = Recovery /\ mine'[t].second = "canonical"
          BY <3>2, <4>2, <5>1 DEF Recovering, Locals
        <5>3. Filled(mine'[t].second, row'.tier, file')
          BY <5>1, <5>2 DEF Filled, NoRow, None
        <5>4. Recovering(t)'
          BY <5>1, <5>2, <5>3 DEF Recovering
        <5> QED BY <4>2, <5>1, <5>4, RecoveryMoved
      <4>6. CASE Migrate(t)
        <5> DEFINE at == mine[t].at
                   new == [mine[t].stale EXCEPT !.legacy = FALSE]
        <5>1. at \in Tiers /\ mine[t].stale \in Documents
          BY <3>2, <4>6 DEF Migrate, Placed
        <5>2. /\ new \in Documents /\ new # NoDoc
              /\ new.text = mine[t].stale.text
              /\ new.revision = mine[t].stale.revision
          BY <5>1, DocumentMigrated
        <5>3. PutFile(at, new) /\ UNCHANGED row
          BY <4>6 DEF Migrate
        <5> HIDE DEF new
        <5>4. /\ file'[at] = new
              /\ \A other \in Tiers \ {at} : file'[other] = file[other]
          BY <5>1, <5>2, <5>3, FilePut DEF TypeInv
        <5>5. /\ pc' = [pc EXCEPT ![t] = "resync"] /\ pc'[t] = "resync"
              /\ mine'[t] = mine[t]
          BY <4>6 DEF Migrate, Goto, Step, TypeInv, LocalsOK
        <5>6. Filled(at, row'.tier, file')
          <6>1. Filled(at, row.tier, file) /\ at # None
            BY <4>2, <4>6, <5>1, TargetTiers DEF Recovering, Migrate
          <6> QED BY <5>1, <5>3, <5>4, <6>1, TargetTiers DEF Filled
        <5>7. Filled(mine'[t].at, row'.tier, file')
          BY <5>5, <5>6 DEF Filled
        <5>8. Recovering(t)'
          BY <4>2, <4>6, <5>2, <5>4, <5>5, <5>7 DEF Recovering, Migrate
        <5> QED BY <4>2, <5>5, <5>8, RecoveryMoved
      <4>7. CASE Resync(t)
        <5> DEFINE m == mine[t]
                   n == [m EXCEPT !.stale = NoDoc, !.then = None]
        <5>1. /\ m.at \in Tiers /\ m.stale \in Documents
              /\ Filled(m.at, row.tier, file) /\ file[m.at] # NoDoc /\ m.call = Recovery
              /\ m.second = NextTier(m.at)
              /\ m.then = IF m.second = None THEN "done" ELSE "scan"
          BY <3>2, <4>2, <4>7 DEF Recovering, Resync, Placed
        <5>2. n.call = m.call /\ n.second = m.second
          BY <3>2 DEF Locals
        <5>3. Step(t, m.then, n) /\ UNCHANGED file /\ row'.tier = m.at
          BY <4>7 DEF Resync, PutRow
        <5> HIDE DEF n
        <5>4. /\ pc' = [pc EXCEPT ![t] = m.then] /\ pc'[t] = m.then
              /\ mine'[t] = n
          BY <5>3 DEF Step, TypeInv, LocalsOK
        <5>5. Filled(NextTier(m.at), row'.tier, file')
          BY <5>1, <5>3, FilledNext
        <5>6. m.then \in {"done", "scan"}
          BY <5>1
        <5>7. mine'[t].call = Recovery /\ mine'[t].second = NextTier(m.at)
          BY <5>1, <5>2, <5>4
        <5>8. m.then = "scan" => Filled(mine'[t].second, row'.tier, file')
          BY <5>5, <5>7 DEF Filled
        <5>9. m.then = "done" => Filled(None, row'.tier, file')
          BY <5>1, <5>5
        <5>10. Recovering(t)'
          BY <5>4, <5>6, <5>7, <5>8, <5>9 DEF Recovering
        <5> QED BY <4>2, <5>4, <5>10, RecoveryMoved
      <4> QED BY <4>3, <4>4, <4>5, <4>6, <4>7
    <3> QED BY <3>3, <3>4
  <2> QED BY <2>1, <2>2 DEF TypeInv, DiskOK
<1> QED BY <1>1, <1>2, <1>3 DEF Next

(* A server that comes up has what is there in its manifest.               *)
LEMMA RecoveryEnds ==
  ASSUME TypeInv, RecoveryInv, [Next]_vars, ~serving, serving'
  PROVE  row'.tier = Winner(file')
<1>1. PICK t \in Threads : Restart(t) \/ Recovered(t)
  BY DEF Next, vars, Crash, Begin, Read, Fetch, Load, Migrate, Resync, Answer,
         Upsert, Refetch, Reload, Save, Write, Sync, SyncFails, Undo,
         UndoUnlink, Settle, UnlinkFormer, UnlinkFirst, Log,
         Rebuild, Clear, Scan
<1>2. CASE Recovered(t)
  <2>1. Recovering(t) /\ pc[t] = "done"
    BY <1>2 DEF Recovered, RecoveryInv
  <2>2. row.tier = Winner(file)
    BY <2>1 DEF Recovering, Filled
  <2> QED BY <1>2, <2>2 DEF Recovered
<1>3. CASE Restart(t)
  <2>1. OnDisk = InManifest /\ UNCHANGED <<file, row>>
    BY <1>3 DEF Restart
  <2>2. \A tier \in Tiers : file[tier] # NoDoc <=> row # NoRow /\ tier = row.tier
    BY <2>1 DEF OnDisk, InManifest
  <2>3. CASE row = NoRow
    BY <2>1, <2>2, <2>3, WinnerIs, RowFields DEF TypeInv, DiskOK
  <2>4. CASE row # NoRow
    <3>1. row.tier \in Tiers
      BY <2>4, RowFields DEF TypeInv, DiskOK
    <3> QED BY <2>1, <2>2, <2>4, <3>1, WinnerIs, TargetTiers
  <2> QED BY <2>3, <2>4
<1> QED BY <1>1, <1>2, <1>3

LEMMA RecoveryAlways == Spec => [](TypeInv /\ RecoveryInv)
<1>1. Init => TypeInv /\ RecoveryInv
  BY InitType DEF Init, RecoveryInv
<1>2. TypeInv /\ RecoveryInv /\ [Next]_vars => (TypeInv /\ RecoveryInv)'
  BY TypeStep, RecoveryStep
<1> QED BY <1>1, <1>2, PTL DEF Spec

(* However racing requests, rebuilds and crashes have left the files and   *)
(* the manifest: when the constructor of the store has come to its end,    *)
(* the manifest names the tier the object is served from, or none.         *)
THEOREM RecoveryAlwaysRestores == Spec => RecoveryRestores
<1>1. TypeInv /\ RecoveryInv /\ [Next]_vars =>
        [~serving /\ serving' => row'.tier = Winner(file')]_vars
  BY RecoveryEnds
<1> QED BY <1>1, RecoveryAlways, PTL DEF Spec, RecoveryRestores
=============================================================================
