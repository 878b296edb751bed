----------------------------- MODULE RetrievalProofs -----------------------------
(***************************************************************************)
(* Theorems about Retrieval and PluginClient for any number of threads,    *)
(* clients, tries and crashes, any documents, objects and packets.         *)
(***************************************************************************)
EXTENDS PluginClient, SequenceTheorems, FiniteSetTheorems, TLAPS

-----------------------------------------------------------------------------
(* Data.                                                                   *)

LEMMA CallFields ==
  ASSUME NEW c \in Calls
  PROVE  /\ c.op \in {"ingest", "search", "refine", "promote", "audit"}
         /\ c.op = "ingest" => c.arg \in Sources \cup {None}
         /\ c.op \in {"promote", "audit"} => c.arg \in Objects
BY CallsAssumption DEF AllCalls

LEMMA RequestFields ==
  ASSUME NEW r \in Requests
  PROVE  r.call \in Calls /\ r.from \in Clients
BY DEF Requests

LEMMA DraftType == Draft \in Seq(Objects)
<1>1. Texts \in Seq(DOMAIN IdOf) /\ Len(Texts) \in Nat
  BY TextsAssumption, LenProperties
<1>2. \A i \in 1..Len(Texts) : Texts[i] \in DOMAIN IdOf
  BY <1>1, ElementOfSeq
<1>3. \A i \in 1..Len(Texts) : IdOf[Texts[i]] \in Objects
  BY <1>2, TextsAssumption
<1>4. Draft \in [1..Len(Texts) -> Objects]
  BY <1>3 DEF Draft
<1> QED BY <1>1, <1>4, IsASeq DEF Draft

-----------------------------------------------------------------------------
(* Type correctness.                                                       *)

Locals == [request : Requests \cup {NoRequest}, todo : Seq(Objects),
           seen : SUBSET Sources, before : SUBSET Sources, status : Statuses]

Tools == [phase : {"idle", "waiting", "reading"}, try : 0..MaxTries,
          request : Requests \cup {NoRequest}, result : Results,
          done : SUBSET Calls]

StateOK ==
  /\ kb \in [Objects -> Tiers \cup {None}]
  /\ ledger \in [Objects -> Seq(Lines)]
  /\ logged \in [Objects -> Nat]
  /\ packet \in BOOLEAN /\ serving \in BOOLEAN /\ crashes \in 0..MaxCrashes

FilesOK ==
  sources \subseteq Sources /\ extracts \subseteq Sources /\ table \subseteq Sources

WireOK ==
  inbox \subseteq Requests /\ open \subseteq Requests /\ answers \subseteq Answers

ClientsOK ==
  /\ tool \in [Clients -> Tools]
  /\ \A c \in Clients : Waiting(c) => tool[c].request \in Requests

(* What the place of a thread says of its local variables.                 *)
Placed(label, m) ==
  LET call == m.request.call IN
  /\ label # "idle" => m.request \in Requests
  /\ label \in {"source", "extract", "table"} => call.op = "ingest"
  /\ label \in {"list_documents", "list_code"} => call.op \in {"ingest", "search"}
  /\ label \in {"extract", "list_documents", "list_code", "table"} =>
       (call.op = "ingest" => call.arg \in Sources)
  /\ label \in {"packet", "create"} => call.op = "refine"
  /\ label = "log" => call.op \in {"refine", "promote"}
  /\ label \in {"create", "log"} => m.todo # <<>>
  /\ label = "promote" => call.op = "promote"
  /\ label \in {"promote", "log"} =>
       (call.op = "promote" => m.todo = <<call.arg>>)
  /\ label = "audit" => call.op = "audit"

ThreadsOK ==
  /\ pc \in [Threads -> PCs]
  /\ mine \in [Threads -> Locals]
  /\ \A t \in Threads : Placed(pc[t], mine[t])

TypeInv == StateOK /\ FilesOK /\ WireOK /\ ClientsOK /\ ThreadsOK

LEMMA TypeInvTypeOK == TypeInv => PluginTypeOK
<1> SUFFICES ASSUME TypeInv PROVE PluginTypeOK
  OBVIOUS
<1>1. TypeOK
  BY DEF TypeInv, TypeOK, StateOK, FilesOK, WireOK, ThreadsOK, Locals
<1>2. ToolOK
  BY DEF TypeInv, ToolOK, ClientsOK, Tools
<1> QED BY <1>1, <1>2 DEF PluginTypeOK

(* A thread moves to a place its local variables are right for.            *)
LEMMA StepMoves ==
  ASSUME ThreadsOK, NEW t \in Threads, NEW label \in PCs, NEW m \in Locals,
         Placed(label, m), Step(t, label, m)
  PROVE  /\ ThreadsOK'
         /\ pc'[t] = label /\ mine'[t] = m
         /\ \A u \in Threads \ {t} : pc'[u] = pc[u] /\ mine'[u] = mine[u]
BY DEF ThreadsOK, Step

LEMMA IdleLocals == Idle \in Locals /\ Placed("idle", Idle)
<1>1. <<>> \in Seq(Objects)
  BY EmptySeq
<1> QED BY <1>1 DEF Idle, Locals, Placed, Statuses

LEMMA Located ==
  ASSUME ThreadsOK, NEW t \in Threads
  PROVE  /\ pc[t] \in PCs /\ mine[t] \in Locals /\ Placed(pc[t], mine[t])
         /\ pc[t] # "idle" => Call(t) \in Calls
BY RequestFields DEF ThreadsOK, Placed, Call

(* What an action leaves alone.                                            *)
LEMMA StateKept ==
  StateOK /\ UNCHANGED <<knowledge, packet, server>> => StateOK'
BY DEF StateOK, knowledge, server

LEMMA FilesKept == FilesOK /\ UNCHANGED files => FilesOK'
BY DEF FilesOK, files

LEMMA WireKept == WireOK /\ UNCHANGED wire => WireOK'
BY DEF WireOK, wire

LEMMA ThreadsKept == ThreadsOK /\ UNCHANGED threads => ThreadsOK'
BY DEF ThreadsOK, threads

LEMMA ClientsKept == ClientsOK /\ UNCHANGED tool => ClientsOK'
BY DEF ClientsOK, Waiting

LEMMA TakeType ==
  ASSUME TypeInv, NEW t \in Threads, Take(t), UNCHANGED tool
  PROVE  TypeInv'
<1> USE DEF TypeInv
<1>1. PICK r \in inbox :
        /\ inbox' = inbox \ {r}
        /\ Step(t, FirstAccess(r.call.op),
                [Idle EXCEPT !.request = r,
                             !.todo = IF r.call.op = "promote"
                                        THEN <<r.call.arg>> ELSE <<>>,
                             !.before = extracts])
  BY DEF Take
<1> DEFINE todo == IF r.call.op = "promote" THEN <<r.call.arg>> ELSE <<>>
           m == [Idle EXCEPT !.request = r, !.todo = todo, !.before = extracts]
<1>2. r \in Requests /\ r.call \in Calls
  BY RequestFields DEF WireOK
<1>3. todo \in Seq(Objects)
  BY <1>2, CallFields, EmptySeq
<1>4. m \in Locals /\ m.request = r /\ m.todo = todo
  <2> HIDE DEF todo
  <2> QED BY <1>2, <1>3, IdleLocals DEF Idle, Locals, FilesOK
<1>5. Step(t, FirstAccess(r.call.op), m)
  BY <1>1
<1> HIDE DEF m
<1>6. FirstAccess(r.call.op) \in PCs
  BY <1>2, CallFields DEF FirstAccess, PCs
<1>7. Placed(FirstAccess(r.call.op), m)
  BY <1>2, <1>4, CallFields DEF FirstAccess, Placed
<1>8. ThreadsOK'
  BY <1>4, <1>5, <1>6, <1>7, StepMoves
<1>9. WireOK'
  BY <1>1 DEF Take, WireOK
<1> QED BY <1>8, <1>9, StateKept, FilesKept, ClientsKept DEF Take

LEMMA GotoMoves ==
  ASSUME ThreadsOK, NEW t \in Threads, NEW label \in PCs,
         Goto(t, label), Placed(label, mine[t])
  PROVE  /\ ThreadsOK'
         /\ pc'[t] = label /\ mine'[t] = mine[t]
         /\ \A u \in Threads \ {t} : pc'[u] = pc[u] /\ mine'[u] = mine[u]
BY Located, StepMoves DEF Goto

LEMMA StopMoves ==
  ASSUME ThreadsOK, NEW t \in Threads, pc[t] # "idle",
         NEW status \in Statuses, Stop(t, status)
  PROVE  /\ ThreadsOK'
         /\ pc'[t] = "answer" /\ mine'[t] = [mine[t] EXCEPT !.status = status]
         /\ \A u \in Threads \ {t} : pc'[u] = pc[u] /\ mine'[u] = mine[u]
<1> DEFINE m == [mine[t] EXCEPT !.status = status]
<1>1. m \in Locals /\ m.request = mine[t].request
  BY Located DEF Locals
<1>2. m.request \in Requests
  BY <1>1, Located DEF Placed
<1>3. Step(t, "answer", m)
  BY DEF Stop
<1> HIDE DEF m
<1>4. Placed("answer", m)
  BY <1>2 DEF Placed
<1>5. "answer" \in PCs
  BY DEF PCs
<1>6. /\ ThreadsOK' /\ pc'[t] = "answer" /\ mine'[t] = m
      /\ \A u \in Threads \ {t} : pc'[u] = pc[u] /\ mine'[u] = mine[u]
  BY <1>1, <1>3, <1>4, <1>5, StepMoves
<1> QED BY <1>6 DEF m

LEMMA AnswerType ==
  ASSUME TypeInv, NEW t \in Threads, Answer(t), UNCHANGED tool
  PROVE  TypeInv'
<1> USE DEF TypeInv
<1>1. ThreadsOK'
  BY IdleLocals, StepMoves DEF Answer, PCs
<1>2. mine[t].request \in Requests /\ mine[t].status \in Statuses
  BY Located DEF Answer, Placed, Locals
<1>3. WireOK'
  BY <1>2 DEF Answer, WireOK, Answers
<1> QED BY <1>1, <1>3, StateKept, FilesKept, ClientsKept DEF Answer

LEMMA IngestType ==
  ASSUME TypeInv, NEW t \in Threads, Ingest(t), UNCHANGED tool
  PROVE  TypeInv'
<1> USE DEF TypeInv
<1>0. StateOK' /\ WireOK' /\ ClientsOK'
  BY StateKept, WireKept, ClientsKept
     DEF Ingest, WriteSource, WriteExtract, WriteTable
<1>1. CASE WriteSource(t)
  <2>1. /\ pc[t] = "source" /\ Call(t) \in Calls /\ Call(t).op = "ingest"
        /\ Placed("source", mine[t])
    BY <1>1, Located DEF WriteSource, Placed, Call
  <2>2. Call(t).arg \in Sources \cup {None}
    BY <2>1, CallFields
  <2>3. CASE Call(t).arg = None
    <3>1. ThreadsOK'
      BY <1>1, <2>1, <2>3, StopMoves DEF WriteSource, Statuses
    <3> QED BY <1>0, <1>1, <2>3, <3>1, FilesKept DEF WriteSource, files
  <2>4. CASE Call(t).arg # None
    <3>1. Placed("extract", mine[t])
      BY <2>1, <2>2, <2>4 DEF Placed, Call
    <3>2. ThreadsOK'
      BY <1>1, <2>4, <3>1, GotoMoves DEF WriteSource, PCs
    <3>3. FilesOK'
      BY <1>1, <2>2, <2>4 DEF WriteSource, FilesOK
    <3> QED BY <1>0, <3>2, <3>3
  <2> QED BY <2>3, <2>4
<1>2. CASE WriteExtract(t)
  <2>1. Placed("extract", mine[t])
    BY <1>2, Located DEF WriteExtract
  <2>2. Placed("list_documents", mine[t])
    BY <2>1 DEF Placed
  <2>3. ThreadsOK'
    BY <1>2, <2>2, GotoMoves DEF WriteExtract, PCs
  <2>4. FilesOK'
    BY <1>2, <2>1 DEF WriteExtract, FilesOK, Placed, Call
  <2> QED BY <1>0, <2>3, <2>4
<1>3. CASE WriteTable(t)
  <2>1. Placed("table", mine[t]) /\ mine[t] \in Locals
    BY <1>3, Located DEF WriteTable
  <2>2. Placed("answer", mine[t])
    BY <2>1 DEF Placed
  <2>3. ThreadsOK'
    BY <1>3, <2>2, GotoMoves DEF WriteTable, PCs
  <2>4. FilesOK'
    BY <1>3, <2>1 DEF WriteTable, FilesOK, Locals
  <2> QED BY <1>0, <2>3, <2>4
<1> QED BY <1>1, <1>2, <1>3 DEF Ingest

(* What a listing adds to the local variables.                             *)
LEMMA SeenLocals ==
  ASSUME NEW m \in Locals, NEW s \in SUBSET Sources
  PROVE  LET new == [m EXCEPT !.seen = s]
         IN  /\ new \in Locals /\ new.seen = s
             /\ new.request = m.request /\ new.todo = m.todo
             /\ new.before = m.before /\ new.status = m.status
BY DEF Locals

LEMMA ListType ==
  ASSUME TypeInv, NEW t \in Threads, List(t), UNCHANGED tool
  PROVE  TypeInv'
<1> USE DEF TypeInv
<1>0. StateOK' /\ FilesOK' /\ WireOK' /\ ClientsOK'
  BY StateKept, FilesKept, WireKept, ClientsKept
     DEF List, ListDocuments, ListCode
<1>1. mine[t] \in Locals /\ Placed(pc[t], mine[t])
  BY Located
<1>2. CASE ListDocuments(t)
  <2> DEFINE m == [mine[t] EXCEPT !.seen = extracts \cap Documents]
  <2>1. m \in Locals /\ m.request = mine[t].request /\ m.todo = mine[t].todo
    BY <1>1, SeenLocals DEF FilesOK
  <2>2. Step(t, "list_code", m) /\ Placed("list_documents", mine[t])
    BY <1>1, <1>2 DEF ListDocuments
  <2> HIDE DEF m
  <2>3. Placed("list_code", m)
    BY <2>1, <2>2 DEF Placed
  <2>4. ThreadsOK'
    BY <2>1, <2>2, <2>3, StepMoves DEF PCs
  <2> QED BY <1>0, <2>4
<1>3. CASE ListCode(t)
  <2> DEFINE m == [mine[t] EXCEPT !.seen = @ \cup (extracts \cap Codes)]
  <2>1. m \in Locals /\ m.request = mine[t].request /\ m.todo = mine[t].todo
    BY <1>1 DEF FilesOK, Locals
  <2>2. Step(t, AfterListing(t), m) /\ Placed("list_code", mine[t])
    BY <1>1, <1>3 DEF ListCode
  <2> HIDE DEF m
  <2>3. Placed(AfterListing(t), m)
    BY <2>1, <2>2 DEF Placed, AfterListing, Call
  <2>4. ThreadsOK'
    BY <2>1, <2>2, <2>3, StepMoves DEF PCs, AfterListing
  <2> QED BY <1>0, <2>4
<1> QED BY <1>2, <1>3 DEF List

(* What is left to do.                                                     *)
LEMMA TodoLocals ==
  ASSUME NEW m \in Locals, NEW s \in Seq(Objects)
  PROVE  LET new == [m EXCEPT !.todo = s]
         IN  /\ new \in Locals /\ new.todo = s
             /\ new.request = m.request /\ new.seen = m.seen
             /\ new.before = m.before /\ new.status = m.status
BY DEF Locals

LEMMA TodoSequence ==
  ASSUME NEW s \in Seq(Objects), s # <<>>
  PROVE  /\ Head(s) \in Objects /\ Tail(s) \in Seq(Objects)
         /\ \A i \in 1..Len(s) :
              s[i] = Head(s) \/ \E j \in 1..Len(Tail(s)) : Tail(s)[j] = s[i]
         /\ \A o : s = <<o>> => Head(s) = o /\ Tail(s) = <<>>
<1>1. /\ Head(s) \in Objects /\ Tail(s) \in Seq(Objects)
      /\ Len(Tail(s)) = Len(s) - 1
      /\ \A j \in 1..Len(Tail(s)) : Tail(s)[j] = s[j + 1]
  BY HeadTailProperties
<1>2. ASSUME NEW i \in 1..Len(s), i # 1
      PROVE  \E j \in 1..Len(Tail(s)) : Tail(s)[j] = s[i]
  <2>1. Len(s) \in Nat
    BY LenProperties
  <2>2. i - 1 \in 1..Len(Tail(s)) /\ (i - 1) + 1 = i
    BY <1>1, <1>2, <2>1
  <2> QED BY <1>1, <2>2
<1>3. s[1] = Head(s)
  OBVIOUS
<1>4. ASSUME NEW o, s = <<o>> PROVE Head(s) = o /\ Tail(s) = <<>>
  BY <1>4
<1> QED BY <1>1, <1>2, <1>3, <1>4

(* Lines of a ledger: what an append or a crash makes of them.             *)
LEMMA AppendedLines ==
  ASSUME NEW lines \in Seq(Lines),
         NEW event \in {"candidate_created", "candidate_promoted"}
  PROVE  /\ Appended(lines, event) \in Seq(Lines)
         /\ \E i \in 1..Len(Appended(lines, event)) :
              Appended(lines, event)[i] \in {event, "merged"}
         /\ \A i \in 1..Len(lines) : lines[i] # "torn" =>
              i \in 1..Len(Appended(lines, event))
              /\ Appended(lines, event)[i] = lines[i]
<1>1. event \in Lines /\ "merged" \in Lines /\ Len(lines) \in Nat
  BY LenProperties DEF Lines
<1>2. CASE Torn(lines)
  <2> DEFINE new == [lines EXCEPT ![Len(lines)] = "merged"]
  <2>1. Len(lines) \in 1..Len(lines) /\ lines[Len(lines)] = "torn"
    BY <1>1, <1>2, EmptySeq DEF Torn
  <2>2. new \in Seq(Lines) /\ Len(new) = Len(lines)
    BY <1>1, <2>1, ExceptSeq
  <2>3. new[Len(lines)] = "merged"
        /\ \A i \in 1..Len(lines) : lines[i] # "torn" => new[i] = lines[i]
    BY <1>1, <2>1
  <2>4. Appended(lines, event) = new
    BY <1>2 DEF Appended
  <2> QED BY <2>1, <2>2, <2>3, <2>4
<1>3. CASE ~Torn(lines)
  <2>1. Appended(lines, event) = Append(lines, event)
    BY <1>3 DEF Appended
  <2>2. /\ Append(lines, event) \in Seq(Lines)
        /\ Len(Append(lines, event)) = Len(lines) + 1
        /\ \A i \in 1..Len(lines) : Append(lines, event)[i] = lines[i]
        /\ Append(lines, event)[Len(lines) + 1] = event
    BY <1>1, AppendProperties
  <2>3. Len(lines) + 1 \in 1..(Len(lines) + 1)
        /\ \A i \in 1..Len(lines) : i \in 1..(Len(lines) + 1)
    BY <1>1
  <2> QED BY <2>1, <2>2, <2>3
<1> QED BY <1>2, <1>3

LEMMA TornLines ==
  ASSUME NEW lines \in Seq(Lines)
  PROVE  /\ TornOff(lines) \in Seq(Lines)
         /\ \A i \in 1..Len(lines) :
              i \in 1..Len(TornOff(lines)) /\ TornOff(lines)[i] = lines[i]
<1>1. "torn" \in Lines /\ Len(lines) \in Nat
  BY LenProperties DEF Lines
<1>2. CASE Torn(lines)
  BY <1>2 DEF TornOff
<1>3. CASE ~Torn(lines)
  <2>1. TornOff(lines) = Append(lines, "torn")
    BY <1>3 DEF TornOff
  <2>2. /\ Append(lines, "torn") \in Seq(Lines)
        /\ Len(Append(lines, "torn")) = Len(lines) + 1
        /\ \A i \in 1..Len(lines) : Append(lines, "torn")[i] = lines[i]
    BY <1>1, AppendProperties
  <2> QED BY <1>1, <2>1, <2>2
<1> QED BY <1>2, <1>3

LEMMA RefineType ==
  ASSUME TypeInv, NEW t \in Threads, Refine(t), UNCHANGED tool
  PROVE  TypeInv'
<1> USE DEF TypeInv
<1>0. FilesOK' /\ WireOK' /\ ClientsOK'
  BY FilesKept, WireKept, ClientsKept DEF Refine, ReadPacket, Create
<1>1. mine[t] \in Locals /\ Placed(pc[t], mine[t])
  BY Located
<1>2. CASE ReadPacket(t)
  <2>1. pc[t] = "packet" /\ StateOK'
    BY <1>2, StateKept DEF ReadPacket
  <2>2. CASE Call(t).arg = None \/ (~packet /\ Call(t).arg # "inline")
    <3>1. PICK status \in Statuses : Stop(t, status)
      BY <1>2, <2>2 DEF ReadPacket, Statuses
    <3>2. ThreadsOK'
      BY <2>1, <3>1, StopMoves
    <3> QED BY <1>0, <2>1, <3>2
  <2>3. CASE Call(t).arg # None /\ (packet \/ Call(t).arg = "inline")
    <3>1. CASE Call(t).arg # "draft" /\ Draft # <<>>
      <4> DEFINE m == [mine[t] EXCEPT !.todo = Draft]
      <4>1. m \in Locals /\ m.todo = Draft /\ m.request = mine[t].request
        BY <1>1, DraftType, TodoLocals
      <4>2. Step(t, "create", m)
        BY <1>2, <2>3, <3>1 DEF ReadPacket
      <4> HIDE DEF m
      <4>3. Placed("create", m)
        BY <1>1, <2>1, <3>1, <4>1 DEF Placed
      <4>4. ThreadsOK'
        BY <4>1, <4>2, <4>3, StepMoves DEF PCs
      <4> QED BY <1>0, <2>1, <4>4
    <3>2. CASE ~(Call(t).arg # "draft" /\ Draft # <<>>)
      <4>1. Placed("answer", mine[t])
        BY <1>1, <2>1 DEF Placed
      <4>2. Goto(t, "answer")
        BY <1>2, <2>3, <3>2 DEF ReadPacket
      <4>3. ThreadsOK'
        BY <4>1, <4>2, GotoMoves DEF PCs
      <4> QED BY <1>0, <2>1, <4>3
    <3> QED BY <3>1, <3>2
  <2> QED BY <2>2, <2>3
<1>3. CASE Create(t)
  <2>1. pc[t] = "create" /\ mine[t].todo \in Seq(Objects) /\ mine[t].todo # <<>>
    BY <1>1, <1>3 DEF Create, Placed, Locals
  <2>2. StateOK'
    BY <1>3, <2>1, TodoSequence DEF Create, Put, StateOK, server, Tiers
  <2>3. Placed("log", mine[t])
    BY <1>1, <2>1 DEF Placed
  <2>4. ThreadsOK'
    BY <1>3, <2>3, GotoMoves DEF Create, PCs
  <2> QED BY <1>0, <2>2, <2>4
<1> QED BY <1>2, <1>3 DEF Refine

LEMMA FailsType ==
  ASSUME TypeInv, NEW t \in Threads, Fails(t), UNCHANGED tool
  PROVE  TypeInv'
<1> USE DEF TypeInv
<1>1. ThreadsOK'
  BY StopMoves DEF Fails, Statuses
<1> QED BY <1>1, StateKept, FilesKept, WireKept, ClientsKept DEF Fails

LEMMA TellType ==
  ASSUME TypeInv, NEW t \in Threads, Tell(t), UNCHANGED tool
  PROVE  TypeInv'
<1> USE DEF TypeInv
<1>0. FilesOK' /\ WireOK' /\ ClientsOK'
  BY FilesKept, WireKept, ClientsKept DEF Tell, Promote, Log, Audit
<1>1. mine[t] \in Locals /\ Placed(pc[t], mine[t])
  BY Located
<1>2. CASE Promote(t)
  <2>1. /\ pc[t] = "promote" /\ Call(t) \in Calls /\ Call(t).op = "promote"
        /\ mine[t].todo = <<Call(t).arg>>
    BY <1>1, <1>2, Located DEF Promote, Placed, Call
  <2>2. Head(mine[t].todo) \in Objects /\ mine[t].todo # <<>>
    BY <2>1, CallFields
  <2>3. CASE kb[Head(mine[t].todo)] = "candidate"
    <3>1. StateOK'
      BY <1>2, <2>2, <2>3 DEF Promote, Put, StateOK, server, Tiers
    <3>2. Placed("log", mine[t])
      BY <1>1, <2>1, <2>2 DEF Placed
    <3>3. ThreadsOK'
      BY <1>2, <2>3, <3>2, GotoMoves DEF Promote, PCs
    <3> QED BY <1>0, <3>1, <3>3
  <2>4. CASE kb[Head(mine[t].todo)] # "candidate"
    <3>1. ThreadsOK'
      BY <1>2, <2>1, <2>4, StopMoves DEF Promote, Refusal, Statuses
    <3> QED BY <1>0, <1>2, <2>4, <3>1, StateKept DEF Promote, knowledge
  <2> QED BY <2>3, <2>4
<1>3. CASE Log(t)
  <2> DEFINE rest == Tail(mine[t].todo)
             m == [mine[t] EXCEPT !.todo = rest]
             label == IF rest = <<>> THEN "answer" ELSE "create"
  <2>1. pc[t] = "log" /\ mine[t].todo \in Seq(Objects) /\ mine[t].todo # <<>>
    BY <1>1, <1>3 DEF Log, Placed, Locals
  <2>2. Head(mine[t].todo) \in Objects /\ rest \in Seq(Objects)
    BY <2>1, TodoSequence
  <2>3. Event(t) \in {"candidate_created", "candidate_promoted"}
    BY DEF Event
  <2>4. StateOK'
    <3> DEFINE o == Head(mine[t].todo)
               new == Appended(ledger[o], Event(t))
    <3>1. ledger[o] \in Seq(Lines) /\ new \in Seq(Lines)
      BY <2>2, <2>3, AppendedLines DEF StateOK
    <3>2. /\ ledger' = [ledger EXCEPT ![o] = new]
          /\ logged' = [logged EXCEPT ![o] = @ + 1]
          /\ UNCHANGED <<kb, packet, serving, crashes>>
      BY <1>3 DEF Log, server
    <3>3. logged' \in [Objects -> Nat]
      BY <2>2, <3>2 DEF StateOK
    <3> HIDE DEF new
    <3> QED BY <2>2, <3>1, <3>2, <3>3 DEF StateOK
  <2>5. m \in Locals /\ m.todo = rest /\ m.request = mine[t].request
    BY <1>1, <2>2, TodoLocals
  <2>6. Step(t, label, m)
    BY <1>3 DEF Log
  <2>7. Call(t).op = "promote" => rest = <<>>
    BY <1>1, <2>1, TodoSequence DEF Placed, Call
  <2> HIDE DEF m, rest
  <2>8. Placed(label, m)
    BY <1>1, <2>1, <2>5, <2>7 DEF Placed, Call
  <2>9. ThreadsOK'
    BY <2>5, <2>6, <2>8, StepMoves DEF PCs
  <2> QED BY <1>0, <2>4, <2>9
<1>4. CASE Audit(t)
  <2>1. ThreadsOK'
    BY <1>4, StopMoves DEF Audit, Statuses
  <2> QED BY <1>0, <1>4, <2>1, StateKept DEF Audit
<1> QED BY <1>2, <1>3, <1>4 DEF Tell

LEMMA ThreadType ==
  ASSUME TypeInv, NEW t \in Threads, Work(t), UNCHANGED tool
  PROVE  TypeInv'
BY TakeType, AnswerType, IngestType, ListType, RefineType, TellType, FailsType DEF Work

LEMMA SurroundingsType ==
  ASSUME TypeInv, Surroundings, UNCHANGED tool
  PROVE  TypeInv'
<1> USE DEF TypeInv
<1>1. CASE Archive
  BY <1>1, FilesKept, WireKept, ThreadsKept, ClientsKept
     DEF Archive, StateOK, knowledge, server
<1>2. CASE Restart
  BY <1>2, FilesKept, WireKept, ThreadsKept, ClientsKept
     DEF Restart, StateOK, knowledge
<1>3. CASE Crash
  <2>1. PICK torn \in SUBSET BeingLogged :
          ledger' = [o \in Objects |-> IF o \in torn THEN TornOff(ledger[o])
                                                     ELSE ledger[o]]
    BY <1>3 DEF Crash
  <2>2. ledger' \in [Objects -> Seq(Lines)]
    BY <2>1, TornLines DEF StateOK
  <2>3. crashes' \in 0..MaxCrashes
    BY <1>3, BoundsAssumption DEF Crash, StateOK
  <2>4. StateOK'
    BY <1>3, <2>2, <2>3 DEF Crash, StateOK
  <2>5. WireOK'
    BY <1>3 DEF Crash, WireOK
  <2>6. ThreadsOK'
    BY <1>3, IdleLocals DEF Crash, ThreadsOK, PCs
  <2> QED BY <1>3, <2>4, <2>5, <2>6, FilesKept, ClientsKept DEF Crash
<1> QED BY <1>1, <1>2, <1>3 DEF Surroundings

(* A client's call begins, goes on or ends.                                *)
LEMMA ToolMoves ==
  ASSUME ClientsOK, NEW c \in Clients, NEW new \in Tools,
         new.phase # "idle" => new.request \in Requests,
         tool' = [tool EXCEPT ![c] = new]
  PROVE  /\ ClientsOK' /\ tool'[c] = new
         /\ \A d \in Clients \ {c} : tool'[d] = tool[d]
BY DEF ClientsOK, Waiting

LEMMA ToldMoves ==
  ASSUME ClientsOK, NEW c \in Clients, Waiting(c),
         NEW result \in Results, Told(c, result)
  PROVE  /\ ClientsOK'
         /\ \A d \in Clients \ {c} : tool'[d] = tool[d]
         /\ \A call \in tool'[c].done :
              \/ call \in tool[c].done
              \/ result = "ok" /\ call = tool[c].request.call
<1>1. tool[c] \in Tools /\ tool[c].request.call \in Calls
  BY RequestFields DEF ClientsOK
<1> DEFINE done == IF result = "ok" THEN tool[c].done \cup {tool[c].request.call}
                                    ELSE tool[c].done
           new == [tool[c] EXCEPT !.phase = "idle", !.request = NoRequest,
                                  !.result = result, !.done = done]
<1>2. done \in SUBSET Calls
  BY <1>1 DEF Tools
<1>3. new \in Tools /\ new.phase = "idle" /\ new.done = done
  <2> HIDE DEF done
  <2> QED BY <1>1, <1>2 DEF Tools
<1>4. tool' = [tool EXCEPT ![c] = new]
  BY DEF Told, ClientsOK
<1> HIDE DEF new
<1>5. /\ ClientsOK' /\ tool'[c] = new
      /\ \A d \in Clients \ {c} : tool'[d] = tool[d]
  BY <1>3, <1>4, ToolMoves
<1> QED BY <1>3, <1>5

LEMMA Closed ==
  ASSUME WireOK, NEW c \in Clients, Close(c), UNCHANGED inbox
  PROVE  WireOK' /\ answers' \subseteq answers
BY DEF Close, WireOK

LEMMA ClientType ==
  ASSUME TypeInv, NEW c \in Clients, RequestJson(c)
  PROVE  TypeInv'
<1> USE DEF TypeInv
<1>0. StateOK' /\ FilesOK' /\ ThreadsOK'
  BY StateKept, FilesKept, ThreadsKept
     DEF RequestJson, Send, Headers, Body, Timeout, ConnectionLost, vars,
         knowledge, files, server, threads
<1>1. tool[c] \in Tools
  BY DEF ClientsOK
<1>2. CASE Send(c)
  <2>1. PICK call \in Calls :
          LET r == [from |-> c, try |-> tool[c].try + 1, call |-> call] IN
          IF serving
            THEN /\ inbox' = inbox \cup {r} /\ open' = open \cup {r}
                 /\ tool' = [tool EXCEPT ![c].phase = "waiting",
                                         ![c].try = r.try, ![c].request = r]
            ELSE /\ tool' = [tool EXCEPT ![c].try = r.try,
                                         ![c].result = "request_failed"]
                 /\ UNCHANGED <<inbox, open>>
    BY <1>2 DEF Send
  <2> DEFINE r == [from |-> c, try |-> tool[c].try + 1, call |-> call]
             sent == [tool[c] EXCEPT !.phase = "waiting", !.try = r.try,
                                     !.request = r]
             failed == [tool[c] EXCEPT !.try = r.try, !.result = "request_failed"]
  <2>2. tool[c].try + 1 \in 1..MaxTries /\ ~Waiting(c)
    BY <1>1, <1>2, BoundsAssumption DEF Send, Tools
  <2>3. r \in Requests /\ r.try \in 0..MaxTries
    BY <2>2 DEF Requests
  <2>4. CASE serving
    <3>1. sent \in Tools /\ sent.request = r
      <4> HIDE DEF r
      <4> QED BY <1>1, <2>3 DEF Tools
    <3>2. tool' = [tool EXCEPT ![c] = sent]
      BY <2>1, <2>4 DEF ClientsOK
    <3> HIDE DEF sent
    <3>3. ClientsOK'
      BY <2>3, <3>1, <3>2, ToolMoves
    <3>4. WireOK'
      BY <1>2, <2>1, <2>3, <2>4 DEF Send, WireOK
    <3> QED BY <1>0, <3>3, <3>4
  <2>5. CASE ~serving
    <3>1. failed \in Tools /\ failed.phase = "idle"
      <4> HIDE DEF r
      <4> QED BY <1>1, <2>2, <2>3 DEF Tools, Results, Waiting
    <3>2. tool' = [tool EXCEPT ![c] = failed]
      BY <2>1, <2>5 DEF ClientsOK
    <3> HIDE DEF failed
    <3>3. ClientsOK'
      BY <3>1, <3>2, ToolMoves
    <3>4. WireOK'
      BY <1>2, <2>1, <2>5, WireKept DEF Send, wire
    <3> QED BY <1>0, <3>3, <3>4
  <2> QED BY <2>4, <2>5
<1>3. CASE Headers(c)
  <2> DEFINE new == [tool[c] EXCEPT !.phase = "reading"]
  <2>1. new \in Tools /\ new.request \in Requests
    BY <1>1, <1>3 DEF Tools, Headers, ClientsOK, Waiting
  <2>2. tool' = [tool EXCEPT ![c] = new]
    BY <1>3 DEF Headers, ClientsOK
  <2> HIDE DEF new
  <2>3. ClientsOK'
    BY <2>1, <2>2, ToolMoves
  <2> QED BY <1>0, <1>3, <2>3, WireKept DEF Headers, vars, wire
<1>4. CASE Body(c)
  <2>1. PICK a \in answers : a.to = tool[c].request /\ Told(c, a.status)
    BY <1>4 DEF Body
  <2>2. a.status \in Results
    BY <2>1 DEF WireOK, Answers, Results
  <2> QED BY <1>0, <1>4, <2>1, <2>2, ToldMoves, Closed DEF Body, Waiting
<1>5. CASE Timeout(c)
  BY <1>0, <1>5, ToldMoves, Closed DEF Timeout, Results
<1>6. CASE ConnectionLost(c)
  BY <1>0, <1>6, ToldMoves, Closed DEF ConnectionLost, Results
<1> QED BY <1>2, <1>3, <1>4, <1>5, <1>6 DEF RequestJson

LEMMA TypeInitial == PluginInit => TypeInv
<1> SUFFICES ASSUME PluginInit PROVE TypeInv
  OBVIOUS
<1>1. StateOK /\ FilesOK /\ WireOK
  BY BoundsAssumption, EmptySeq DEF PluginInit, Init, StateOK, FilesOK, WireOK
<1>2. ThreadsOK
  BY IdleLocals DEF PluginInit, Init, ThreadsOK, PCs
<1>3. NoTool \in Tools
  BY BoundsAssumption DEF NoTool, Tools, Results, Statuses
<1>4. ClientsOK
  BY <1>3 DEF PluginInit, ClientsOK, Waiting, NoTool
<1> QED BY <1>1, <1>2, <1>4 DEF TypeInv

LEMMA TypeStep == TypeInv /\ [PluginNext]_allVars => TypeInv'
<1> SUFFICES ASSUME TypeInv, [PluginNext]_allVars PROVE TypeInv'
  OBVIOUS
<1>1. ASSUME NEW t \in Threads, Work(t), UNCHANGED tool PROVE TypeInv'
  BY <1>1, ThreadType
<1>2. ASSUME Surroundings, UNCHANGED tool PROVE TypeInv'
  BY <1>2, SurroundingsType
<1>3. ASSUME NEW c \in Clients, RequestJson(c) PROVE TypeInv'
  BY <1>3, ClientType
<1>4. CASE UNCHANGED allVars
  BY <1>4, StateKept, FilesKept, WireKept, ThreadsKept, ClientsKept
     DEF TypeInv, allVars, vars, knowledge, server, files, wire, threads
<1> QED BY <1>1, <1>2, <1>3, <1>4 DEF PluginNext

(* The services and the plugin keep to their types, whatever overlaps, is  *)
(* given up or crashes.                                                    *)
THEOREM TypeCorrect == PluginSpec => []PluginTypeOK
<1>1. PluginSpec => []TypeInv
  BY TypeInitial, TypeStep, PTL DEF PluginSpec
<1> QED BY <1>1, TypeInvTypeOK, PTL

-----------------------------------------------------------------------------
(* Sources, extracts and the index.                                        *)

(* What the place of a thread says of the files: ingestions have written   *)
(* what they go on from, listings saw what was there.                      *)
Filed(label, m, src, ext) ==
  LET call == m.request.call IN
  /\ m.seen \cup m.before \subseteq ext
  /\ label = "extract" => call.arg \in src
  /\ label \in {"list_documents", "list_code", "table"} =>
       (call.op = "ingest" => call.arg \in ext)
  /\ label = "list_code" => /\ m.before \cap Documents \subseteq m.seen
                            /\ call.op = "ingest" =>
                                 (call.arg \in Documents => call.arg \in m.seen)
  /\ label = "table" => call.arg \in m.seen
  /\ label = "answer" /\ m.status = "ok" =>
       (call.op = "search" => m.before \subseteq m.seen)

SourceInv ==
  /\ ExtractsHaveSources
  /\ \A t \in Threads : Filed(pc[t], mine[t], sources, extracts)

LEMMA FiledStays ==
  ASSUME NEW label, NEW m, NEW src, NEW ext, NEW src2, NEW ext2,
         Filed(label, m, src, ext), src \subseteq src2, ext \subseteq ext2
  PROVE  Filed(label, m, src2, ext2)
BY DEF Filed

LEMMA IdleFiled == \A src, ext : Filed("idle", Idle, src, ext)
BY DEF Filed, Idle

LEMMA Stepped ==
  ASSUME ThreadsOK, NEW t \in Threads, NEW label, NEW m, Step(t, label, m)
  PROVE  /\ pc'[t] = label /\ mine'[t] = m
         /\ \A u \in Threads \ {t} : pc'[u] = pc[u] /\ mine'[u] = mine[u]
BY DEF ThreadsOK, Step

LEMMA SourceMoves ==
  ASSUME SourceInv, NEW t \in Threads,
         \A u \in Threads \ {t} : pc'[u] = pc[u] /\ mine'[u] = mine[u],
         Filed(pc'[t], mine'[t], sources', extracts'),
         sources \subseteq sources', extracts \subseteq extracts',
         ExtractsHaveSources'
  PROVE  SourceInv'
<1>1. ASSUME NEW u \in Threads
      PROVE  Filed(pc'[u], mine'[u], sources', extracts')
  <2>1. CASE u = t
    BY <2>1
  <2>2. CASE u # t
    <3>1. Filed(pc[u], mine[u], sources, extracts)
      BY DEF SourceInv
    <3>2. Filed(pc[u], mine[u], sources', extracts')
      BY <3>1, FiledStays
    <3> QED BY <2>2, <3>2
  <2> QED BY <2>1, <2>2
<1> QED BY <1>1 DEF SourceInv

(* A step that keeps the files and takes a thread to another place.        *)
LEMMA SourceGoto ==
  ASSUME TypeInv, SourceInv, NEW t \in Threads, NEW label, NEW m,
         Step(t, label, m), UNCHANGED files,
         Filed(label, m, sources, extracts)
  PROVE  SourceInv'
<1>1. /\ pc'[t] = label /\ mine'[t] = m
      /\ \A u \in Threads \ {t} : pc'[u] = pc[u] /\ mine'[u] = mine[u]
  BY Stepped DEF TypeInv
<1>2. sources' = sources /\ extracts' = extracts /\ table' = table
  BY DEF files
<1>3. ExtractsHaveSources'
  BY <1>2 DEF SourceInv, ExtractsHaveSources
<1> QED BY <1>1, <1>2, <1>3, SourceMoves

LEMMA TakeSource ==
  ASSUME TypeInv, SourceInv, NEW t \in Threads, Take(t)
  PROVE  SourceInv'
<1>1. PICK r \in inbox :
        Step(t, FirstAccess(r.call.op),
             [Idle EXCEPT !.request = r,
                          !.todo = IF r.call.op = "promote"
                                     THEN <<r.call.arg>> ELSE <<>>,
                          !.before = extracts])
  BY DEF Take
<1> DEFINE todo == IF r.call.op = "promote" THEN <<r.call.arg>> ELSE <<>>
           m == [Idle EXCEPT !.request = r, !.todo = todo, !.before = extracts]
<1>2. r.call \in Calls
  BY RequestFields DEF TypeInv, WireOK
<1>3. m.request = r /\ m.seen = {} /\ m.before = extracts
  <2> HIDE DEF todo
  <2> QED BY DEF Idle
<1>4. Step(t, FirstAccess(r.call.op), m)
  BY <1>1
<1> HIDE DEF m
<1>5. /\ FirstAccess(r.call.op)
           \in {"source", "list_documents", "packet", "promote", "audit"}
      /\ FirstAccess(r.call.op) = "list_documents" => r.call.op = "search"
  BY <1>2, CallFields DEF FirstAccess
<1>6. Filed(FirstAccess(r.call.op), m, sources, extracts)
  BY <1>3, <1>5 DEF Filed
<1> QED BY <1>4, <1>6, SourceGoto DEF Take

(* Threads whose place says nothing of the files.                          *)
LEMMA ElsewhereFiled ==
  ASSUME SourceInv, NEW t \in Threads, NEW label, NEW m,
         \/ label \in {"create", "log"}
         \/ label = "answer" /\ mine[t].request.call.op # "search",
         m.request = mine[t].request, m.seen = mine[t].seen,
         m.before = mine[t].before
  PROVE  Filed(label, m, sources, extracts)
BY DEF SourceInv, Filed

LEMMA StopSource ==
  ASSUME TypeInv, SourceInv, NEW t \in Threads, NEW status, Stop(t, status),
         status # "ok" \/ Call(t).op # "search", UNCHANGED files
  PROVE  SourceInv'
<1> DEFINE m == [mine[t] EXCEPT !.status = status]
<1>1. /\ m.request = mine[t].request /\ m.seen = mine[t].seen
      /\ m.before = mine[t].before /\ m.status = status
  BY Located DEF TypeInv, Locals
<1>2. Step(t, "answer", m)
  BY DEF Stop
<1> HIDE DEF m
<1>3. Filed("answer", m, sources, extracts)
  BY <1>1 DEF SourceInv, Filed, Call
<1> QED BY <1>2, <1>3, SourceGoto

LEMMA IngestSource ==
  ASSUME TypeInv, SourceInv, NEW t \in Threads, Ingest(t)
  PROVE  SourceInv'
<1>1. /\ Placed(pc[t], mine[t]) /\ ThreadsOK
      /\ Filed(pc[t], mine[t], sources, extracts) /\ ExtractsHaveSources
  BY Located DEF TypeInv, SourceInv
<1>2. CASE WriteSource(t)
  <2>1. pc[t] = "source" /\ Call(t).op = "ingest"
    BY <1>1, <1>2 DEF WriteSource, Placed, Call
  <2>2. CASE Call(t).arg = None
    BY <1>2, <2>1, <2>2, StopSource DEF WriteSource, files
  <2>3. CASE Call(t).arg # None
    <3>1. /\ sources' = sources \cup {Call(t).arg} /\ extracts' = extracts
          /\ table' = table /\ Step(t, "extract", mine[t])
      BY <1>2, <2>3 DEF WriteSource, Goto
    <3>2. Filed("extract", mine[t], sources', extracts')
      BY <1>1, <3>1 DEF Filed, Call
    <3>3. ExtractsHaveSources'
      BY <1>1, <3>1 DEF ExtractsHaveSources
    <3> QED BY <1>1, <3>1, <3>2, <3>3, Stepped, SourceMoves
  <2> QED BY <2>2, <2>3
<1>3. CASE WriteExtract(t)
  <2>1. /\ pc[t] = "extract" /\ extracts' = extracts \cup {Call(t).arg}
        /\ sources' = sources /\ table' = table
        /\ Step(t, "list_documents", mine[t])
    BY <1>3 DEF WriteExtract, Goto
  <2>2. Filed("list_documents", mine[t], sources', extracts')
    BY <1>1, <2>1 DEF Filed, Call
  <2>3. ExtractsHaveSources'
    BY <1>1, <2>1 DEF ExtractsHaveSources, Filed, Call
  <2> QED BY <1>1, <2>1, <2>2, <2>3, Stepped, SourceMoves
<1>4. CASE WriteTable(t)
  <2>1. /\ pc[t] = "table" /\ extracts' = extracts /\ sources' = sources
        /\ table' = mine[t].seen \/ table' = table
        /\ Step(t, "answer", mine[t])
    BY <1>4 DEF WriteTable, Goto
  <2>2. Filed("answer", mine[t], sources', extracts')
    BY <1>1, <2>1 DEF Filed, Placed
  <2>3. ExtractsHaveSources'
    BY <1>1, <2>1 DEF ExtractsHaveSources, Filed
  <2> QED BY <1>1, <2>1, <2>2, <2>3, Stepped, SourceMoves
<1> QED BY <1>2, <1>3, <1>4 DEF Ingest

LEMMA ListSource ==
  ASSUME TypeInv, SourceInv, NEW t \in Threads, List(t)
  PROVE  SourceInv'
<1>1. /\ Placed(pc[t], mine[t]) /\ mine[t] \in Locals
      /\ Filed(pc[t], mine[t], sources, extracts)
      /\ extracts \subseteq Documents \cup Codes
  BY Located DEF TypeInv, SourceInv, FilesOK, Sources
<1>2. CASE ListDocuments(t)
  <2> DEFINE m == [mine[t] EXCEPT !.seen = extracts \cap Documents]
  <2>1. /\ m.seen = extracts \cap Documents /\ m.before = mine[t].before
        /\ m.request = mine[t].request
    BY <1>1 DEF Locals
  <2>2. pc[t] = "list_documents" /\ Step(t, "list_code", m) /\ UNCHANGED files
    BY <1>2 DEF ListDocuments
  <2> HIDE DEF m
  <2>3. Filed("list_code", m, sources, extracts)
    BY <1>1, <2>1, <2>2 DEF Filed
  <2> QED BY <2>2, <2>3, SourceGoto
<1>3. CASE ListCode(t)
  <2> DEFINE m == [mine[t] EXCEPT !.seen = @ \cup (extracts \cap Codes)]
  <2>1. /\ m.seen = mine[t].seen \cup (extracts \cap Codes)
        /\ m.before = mine[t].before /\ m.request = mine[t].request
    BY <1>1 DEF Locals
  <2>2. /\ pc[t] = "list_code" /\ UNCHANGED files
        /\ Step(t, IF Call(t).op = "ingest" THEN "table" ELSE "answer", m)
    BY <1>3 DEF ListCode, AfterListing
  <2> HIDE DEF m
  <2>3. CASE Call(t).op = "ingest"
    <3>1. Filed("table", m, sources, extracts)
      BY <1>1, <2>1, <2>2, <2>3 DEF Filed, Call
    <3> QED BY <2>2, <2>3, <3>1, SourceGoto
  <2>4. CASE Call(t).op # "ingest"
    <3>1. Filed("answer", m, sources, extracts)
      BY <1>1, <2>1, <2>2, <2>4 DEF Filed, Call
    <3> QED BY <2>2, <2>4, <3>1, SourceGoto
  <2> QED BY <2>3, <2>4
<1> QED BY <1>2, <1>3 DEF List

LEMMA RefineSource ==
  ASSUME TypeInv, SourceInv, NEW t \in Threads, Refine(t)
  PROVE  SourceInv'
<1>1. Placed(pc[t], mine[t]) /\ mine[t] \in Locals
  BY Located DEF TypeInv
<1>2. Call(t).op # "search" /\ UNCHANGED files
  BY <1>1 DEF Refine, ReadPacket, Create, Placed, Call
<1>3. CASE ReadPacket(t)
  <2> DEFINE m == [mine[t] EXCEPT !.todo = Draft]
  <2>1. CASE \E status : Stop(t, status)
    BY <1>2, <2>1, StopSource
  <2>2. CASE Step(t, "create", m)
    <3>1. /\ m.seen = mine[t].seen /\ m.before = mine[t].before
          /\ m.request = mine[t].request
      BY <1>1 DEF Locals
    <3> HIDE DEF m
    <3>2. Filed("create", m, sources, extracts)
      BY <3>1 DEF SourceInv, Filed
    <3> QED BY <1>2, <2>2, <3>2, SourceGoto
  <2>3. CASE Step(t, "answer", mine[t])
    <3>1. Filed("answer", mine[t], sources, extracts)
      BY <1>2 DEF Call, SourceInv, Filed
    <3> QED BY <1>2, <2>3, <3>1, SourceGoto
  <2> QED BY <1>3, <2>1, <2>2, <2>3 DEF ReadPacket, Goto
<1>4. CASE Create(t)
  <2>1. Filed("log", mine[t], sources, extracts)
    BY DEF SourceInv, Filed
  <2>2. Step(t, "log", mine[t])
    BY <1>4 DEF Create, Goto
  <2> QED BY <1>2, <2>1, <2>2, SourceGoto
<1> QED BY <1>3, <1>4 DEF Refine

LEMMA FailsSource ==
  ASSUME TypeInv, SourceInv, NEW t \in Threads, Fails(t)
  PROVE  SourceInv'
BY StopSource DEF Fails

LEMMA TellSource ==
  ASSUME TypeInv, SourceInv, NEW t \in Threads, Tell(t)
  PROVE  SourceInv'
<1>1. Placed(pc[t], mine[t]) /\ mine[t] \in Locals
  BY Located DEF TypeInv
<1>2. Call(t).op # "search" /\ UNCHANGED files
  BY <1>1 DEF Tell, Promote, Log, Audit, Placed, Call
<1>3. CASE Promote(t)
  <2>1. CASE Step(t, "log", mine[t])
    <3>1. Filed("log", mine[t], sources, extracts)
      BY DEF SourceInv, Filed
    <3> QED BY <1>2, <2>1, <3>1, SourceGoto
  <2>2. CASE Stop(t, Refusal(kb[Head(mine[t].todo)]))
    BY <1>2, <2>2, StopSource
  <2> QED BY <1>3, <2>1, <2>2 DEF Promote, Goto
<1>4. CASE Log(t)
  <2> DEFINE rest == Tail(mine[t].todo)
             m == [mine[t] EXCEPT !.todo = rest]
             label == IF rest = <<>> THEN "answer" ELSE "create"
  <2>1. /\ m.seen = mine[t].seen /\ m.before = mine[t].before
        /\ m.request = mine[t].request
    BY <1>1 DEF Locals
  <2>2. Step(t, label, m)
    BY <1>4 DEF Log
  <2> HIDE DEF m
  <2>3. Filed(label, m, sources, extracts)
    BY <1>2, <2>1, ElsewhereFiled DEF Call
  <2> QED BY <1>2, <2>2, <2>3, SourceGoto
<1>5. CASE Audit(t)
  <2>1. \E status \in Statuses : Stop(t, status)
    BY <1>5 DEF Audit, Statuses
  <2> QED BY <1>2, <2>1, StopSource
<1> QED BY <1>3, <1>4, <1>5 DEF Tell

LEMMA SourceKept ==
  ASSUME SourceInv, UNCHANGED files, UNCHANGED threads
  PROVE  SourceInv'
BY DEF SourceInv, ExtractsHaveSources, files, threads

LEMMA SourceStep ==
  TypeInv /\ SourceInv /\ [PluginNext]_allVars => SourceInv'
<1> SUFFICES ASSUME TypeInv, SourceInv, [PluginNext]_allVars PROVE SourceInv'
  OBVIOUS
<1>1. ASSUME NEW t \in Threads, Work(t) PROVE SourceInv'
  <2>1. CASE Answer(t)
    BY <2>1, IdleFiled, SourceGoto DEF Answer
  <2> QED BY <1>1, <2>1, TakeSource, IngestSource, ListSource, RefineSource,
             TellSource, FailsSource DEF Work
<1>2. CASE Surroundings
  <2>1. CASE Crash
    <3>1. UNCHANGED files /\ \A t \in Threads : pc'[t] = "idle" /\ mine'[t] = Idle
      BY <2>1 DEF Crash
    <3> QED BY <3>1, IdleFiled DEF SourceInv, ExtractsHaveSources, files
  <2> QED BY <1>2, <2>1, SourceKept DEF Surroundings, Archive, Restart
<1>3. ASSUME NEW c \in Clients, RequestJson(c) PROVE SourceInv'
  BY <1>3, SourceKept
     DEF RequestJson, Send, Headers, Body, Timeout, ConnectionLost, vars,
         files, threads
<1>4. CASE UNCHANGED allVars
  BY <1>4, SourceKept DEF allVars, vars, files, threads
<1> QED BY <1>1, <1>2, <1>3, <1>4 DEF PluginNext

LEMMA SourceInitial == PluginInit => SourceInv
BY IdleFiled DEF PluginInit, Init, SourceInv, ExtractsHaveSources

LEMMA SourceInvariant == PluginSpec => [](TypeInv /\ SourceInv)
BY TypeInitial, TypeStep, SourceInitial, SourceStep, PTL DEF PluginSpec

(* Whatever ingestions overlap, are given up or cut off by a crash, an     *)
(* extract has its source and a row of the index its extract.              *)
THEOREM SourcesAlwaysThere == PluginSpec => []ExtractsHaveSources
<1>1. SourceInv => ExtractsHaveSources
  BY DEF SourceInv
<1> QED BY <1>1, SourceInvariant, PTL

(* A search misses no extract that was complete when it began, however     *)
(* many ingestions and syncs of the index run beside it.                   *)
THEOREM SearchesSeeIngested == PluginSpec => []SearchSeesIngested
<1>1. SourceInv => SearchSeesIngested
  BY DEF SourceInv, Filed, SearchSeesIngested
<1> QED BY <1>1, SourceInvariant, PTL

(* An ingestion that writes the index writes its own source into it.       *)
THEOREM IngestionsIndexThemselves == PluginSpec => IngestIndexesItself
<1>1. ASSUME TypeInv, SourceInv, [PluginNext]_allVars, NEW t \in Threads,
             pc[t] = "table", pc'[t] # "table", serving', table' # table
      PROVE  mine[t].request.call.arg \in table'
  <2>1. mine[t].request.call.arg \in mine[t].seen
    BY <1>1 DEF SourceInv, Filed
  <2>2. PICK u \in Threads : WriteTable(u)
    BY <1>1 DEF PluginNext, Work, Take, Ingest, WriteSource, WriteExtract, List,
       ListDocuments, ListCode, Refine, ReadPacket, Create, Fails, Tell,
       Promote, Log, Audit, Answer, Surroundings, Archive, Crash, Restart,
       RequestJson, Send, Headers, Body, Timeout, ConnectionLost, files, vars,
       allVars
  <2>3. u = t
    BY <1>1, <2>2, Stepped DEF WriteTable, Goto, TypeInv
  <2> QED BY <1>1, <2>1, <2>2, <2>3 DEF WriteTable
<1>2. TypeInv /\ SourceInv /\ [PluginNext]_allVars =>
        [\A t \in Threads :
           pc[t] = "table" /\ pc'[t] # "table" /\ serving' /\ table' # table
             => mine[t].request.call.arg \in table']_allVars
  BY <1>1
<1> QED BY <1>2, SourceInvariant, PTL DEF PluginSpec, IngestIndexesItself

-----------------------------------------------------------------------------
(* What was answered "ok" stays true.                                      *)

Recorded(lines, event) == \E i \in 1..Len(lines) : lines[i] \in {event, "merged"}

Refined(o, l) == Recorded(l[o], "candidate_created")

(* Kept, of any ledgers and files.                                         *)
KeptIn(call, l, src, ext) ==
  /\ call.op = "ingest" => call.arg \in src \cap ext
  /\ call.op = "promote" => Recorded(l[call.arg], "candidate_promoted")
  /\ call.op = "refine" /\ call.arg # "draft" =>
       \A i \in 1..Len(Draft) : Refined(Draft[i], l)

(* A candidate of the packet a thread persists is told by its ledger, or   *)
(* still to do.                                                            *)
Acting(label, m, l, src, ext) ==
  LET call == m.request.call IN
  /\ label \in {"create", "log"} /\ call.op = "refine" =>
       \A i \in 1..Len(Draft) :
         \/ Refined(Draft[i], l)
         \/ \E j \in 1..Len(m.todo) : m.todo[j] = Draft[i]
  /\ label = "answer" /\ m.status = "ok" => KeptIn(call, l, src, ext)

AckInv ==
  /\ \A t \in Threads : Acting(pc[t], mine[t], ledger, sources, extracts)
  /\ \A a \in answers :
       a.status = "ok" => KeptIn(a.to.call, ledger, sources, extracts)
  /\ \A c \in Clients : \A call \in tool[c].done :
       KeptIn(call, ledger, sources, extracts)

LEMMA DraftObjects == \A i \in 1..Len(Draft) : Draft[i] \in Objects
BY DraftType, ElementOfSeq

LEMMA KeptInKept ==
  ASSUME NEW call \in Calls
  PROVE  KeptIn(call, ledger, sources, extracts) => Kept(call)
<1> SUFFICES ASSUME KeptIn(call, ledger, sources, extracts)
             PROVE  Kept(call)
  OBVIOUS
<1>1. CASE call.op = "ingest"
  BY <1>1 DEF Kept, KeptIn
<1>2. CASE call.op = "promote"
  BY <1>2 DEF Kept, KeptIn, Recorded, LedgerHas
<1>3. CASE call.op = "refine" /\ call.arg # "draft"
  BY <1>3 DEF Kept, KeptIn, Refined, Recorded, LedgerHas
<1>4. CASE ~(call.op = "ingest" \/ call.op = "promote"
              \/ (call.op = "refine" /\ call.arg # "draft"))
  BY <1>4 DEF Kept
<1> QED BY <1>1, <1>2, <1>3, <1>4

(* Nothing that was told or filed is ever taken back.                      *)
Grows ==
  /\ \A o \in Objects : \A event \in {"candidate_created", "candidate_promoted"} :
       Recorded(ledger[o], event) => Recorded(ledger'[o], event)
  /\ sources \subseteq sources' /\ extracts \subseteq extracts'

LEMMA GrowsStill == UNCHANGED ledger /\ UNCHANGED files => Grows
BY DEF Grows, files

LEMMA GrowsByLog ==
  ASSUME TypeInv, NEW t \in Threads, Log(t)
  PROVE  /\ Grows /\ mine[t].todo # <<>> /\ Head(mine[t].todo) \in Objects
         /\ Recorded(ledger'[Head(mine[t].todo)], Event(t))
<1> DEFINE o == Head(mine[t].todo)
           new == Appended(ledger[o], Event(t))
<1>1. mine[t].todo # <<>> /\ mine[t].todo \in Seq(Objects)
  BY Located DEF TypeInv, Log, Placed, Locals
<1>2. o \in Objects /\ Event(t) \in {"candidate_created", "candidate_promoted"}
  BY <1>1, TodoSequence DEF Event
<1>3. ledger[o] \in Seq(Lines) /\ ledger \in [Objects -> Seq(Lines)]
  BY <1>2 DEF TypeInv, StateOK
<1>4. /\ \E i \in 1..Len(new) : new[i] \in {Event(t), "merged"}
      /\ \A i \in 1..Len(ledger[o]) :
           ledger[o][i] # "torn" => i \in 1..Len(new) /\ new[i] = ledger[o][i]
  BY <1>2, <1>3, AppendedLines
<1>5. ledger' = [ledger EXCEPT ![o] = new] /\ UNCHANGED <<kb, files>>
  BY DEF Log
<1> HIDE DEF new
<1>6. ledger'[o] = new /\ \A x \in Objects \ {o} : ledger'[x] = ledger[x]
  BY <1>2, <1>3, <1>5
<1>7. ASSUME NEW x \in Objects,
             NEW event \in {"candidate_created", "candidate_promoted"},
             Recorded(ledger[x], event)
      PROVE  Recorded(ledger'[x], event)
  BY <1>4, <1>6, <1>7 DEF Recorded
<1>8. Recorded(ledger'[o], Event(t))
  BY <1>4, <1>6 DEF Recorded
<1>9. Grows
  BY <1>5, <1>7 DEF Grows, files
<1> QED BY <1>1, <1>2, <1>8, <1>9

LEMMA GrowsByCrash == ASSUME TypeInv, Crash PROVE Grows
<1>1. PICK torn \in SUBSET BeingLogged :
        ledger' = [o \in Objects |-> IF o \in torn THEN TornOff(ledger[o])
                                                   ELSE ledger[o]]
  BY DEF Crash
<1>2. ASSUME NEW o \in Objects,
             NEW event \in {"candidate_created", "candidate_promoted"},
             Recorded(ledger[o], event)
      PROVE  Recorded(ledger'[o], event)
  <2>1. ledger[o] \in Seq(Lines)
    BY DEF TypeInv, StateOK
  <2>2. \A i \in 1..Len(ledger[o]) :
          i \in 1..Len(TornOff(ledger[o])) /\ TornOff(ledger[o])[i] = ledger[o][i]
    BY <2>1, TornLines
  <2>3. ledger'[o] = TornOff(ledger[o]) \/ ledger'[o] = ledger[o]
    BY <1>1
  <2> QED BY <1>2, <2>2, <2>3 DEF Recorded
<1> QED BY <1>2 DEF Crash, Grows, files

LEMMA GrowsAlways == ASSUME TypeInv, [PluginNext]_allVars PROVE Grows
<1>1. ASSUME NEW t \in Threads, Work(t) PROVE Grows
  <2>1. CASE Take(t) \/ List(t) \/ Answer(t) \/ Refine(t) \/ Promote(t)
             \/ Audit(t) \/ Fails(t)
    BY <2>1, GrowsStill DEF Take, List, ListDocuments, ListCode, Answer, Refine,
       ReadPacket, Create, Fails, Promote, Audit, knowledge
  <2>2. CASE Ingest(t)
    BY <2>2 DEF Ingest, WriteSource, WriteExtract, WriteTable, Grows, knowledge
  <2>3. CASE Log(t)
    BY <2>3, GrowsByLog
  <2> QED BY <1>1, <2>1, <2>2, <2>3 DEF Work, Tell
<1>2. CASE Surroundings
  BY <1>2, GrowsByCrash, GrowsStill
     DEF Surroundings, Archive, Restart, knowledge
<1>3. ASSUME NEW c \in Clients, RequestJson(c) PROVE Grows
  BY <1>3, GrowsStill DEF RequestJson, Send, Headers, Body, Timeout,
     ConnectionLost, vars, knowledge, files
<1>4. CASE UNCHANGED allVars
  BY <1>4, GrowsStill DEF allVars, vars, knowledge, files
<1> QED BY <1>1, <1>2, <1>3, <1>4 DEF PluginNext

LEMMA KeptStays ==
  ASSUME Grows, NEW call \in Calls,
         KeptIn(call, ledger, sources, extracts)
  PROVE  KeptIn(call, ledger', sources', extracts')
<1>1. CASE call.op = "ingest"
  BY <1>1 DEF KeptIn, Grows
<1>2. CASE call.op = "promote"
  BY <1>2, CallFields DEF KeptIn, Grows
<1>3. CASE call.op = "refine"
  BY <1>3, DraftObjects DEF KeptIn, Refined, Grows
<1>4. CASE call.op \notin {"ingest", "promote", "refine"}
  BY <1>4 DEF KeptIn
<1> QED BY <1>1, <1>2, <1>3, <1>4

LEMMA RefinedStays ==
  Grows => \A i \in 1..Len(Draft) :
             Refined(Draft[i], ledger) => Refined(Draft[i], ledger')
BY DraftObjects DEF Refined, Grows

LEMMA ActingStays ==
  ASSUME TypeInv, AckInv, Grows, NEW t \in Threads
  PROVE  Acting(pc[t], mine[t], ledger', sources', extracts')
<1>1. Acting(pc[t], mine[t], ledger, sources, extracts)
  BY DEF AckInv
<1>2. Placed(pc[t], mine[t]) /\ mine[t] \in Locals
      /\ (pc[t] # "idle" => mine[t].request.call \in Calls)
  BY Located DEF TypeInv, Call
<1>3. CASE pc[t] = "answer"
  BY <1>1, <1>2, <1>3, KeptStays DEF Acting
<1>4. CASE pc[t] \in {"create", "log"}
  BY <1>1, <1>4, RefinedStays DEF Acting
<1>5. CASE pc[t] \notin {"create", "log", "answer"}
  BY <1>5 DEF Acting
<1> QED BY <1>3, <1>4, <1>5

(* The step of one thread: no answer is put on its way but its own.        *)
LEMMA AckMoves ==
  ASSUME TypeInv, AckInv, Grows, NEW t \in Threads, UNCHANGED tool,
         \A u \in Threads \ {t} : pc'[u] = pc[u] /\ mine'[u] = mine[u],
         Acting(pc'[t], mine'[t], ledger', sources', extracts'),
         \A a \in answers' : a \in answers \/ (a.status = "ok" =>
           KeptIn(a.to.call, ledger', sources', extracts'))
  PROVE  AckInv'
<1>1. ASSUME NEW u \in Threads
      PROVE  Acting(pc'[u], mine'[u], ledger', sources', extracts')
  <2>1. CASE u = t
    BY <2>1
  <2>2. CASE u # t
    <3>1. Acting(pc[u], mine[u], ledger', sources', extracts')
      BY ActingStays
    <3> QED BY <2>2, <3>1
  <2> QED BY <2>1, <2>2
<1>2. ASSUME NEW a \in answers, a.status = "ok"
      PROVE  KeptIn(a.to.call, ledger', sources', extracts')
  <2>1. a.to.call \in Calls
    BY RequestFields DEF TypeInv, WireOK, Answers
  <2>2. KeptIn(a.to.call, ledger, sources, extracts)
    BY <1>2 DEF AckInv
  <2> QED BY <2>1, <2>2, KeptStays
<1>3. ASSUME NEW c \in Clients, NEW call \in tool[c].done
      PROVE  KeptIn(call, ledger', sources', extracts')
  <2>1. call \in Calls
    BY DEF TypeInv, ClientsOK, Tools
  <2> QED BY <2>1, KeptStays DEF AckInv
<1> QED BY <1>1, <1>2, <1>3 DEF AckInv

(* A step that only takes a thread to another place.                       *)
LEMMA AckGoto ==
  ASSUME TypeInv, AckInv, Grows, NEW t \in Threads, NEW label, NEW m,
         Step(t, label, m), UNCHANGED tool, UNCHANGED answers,
         Acting(label, m, ledger', sources', extracts')
  PROVE  AckInv'
<1>1. /\ pc'[t] = label /\ mine'[t] = m
      /\ \A u \in Threads \ {t} : pc'[u] = pc[u] /\ mine'[u] = mine[u]
  BY Stepped DEF TypeInv
<1> QED BY <1>1, AckMoves

LEMMA AckStop ==
  ASSUME TypeInv, AckInv, Grows, NEW t \in Threads, NEW status, status # "ok",
         Stop(t, status), UNCHANGED tool, UNCHANGED answers
  PROVE  AckInv'
<1> DEFINE m == [mine[t] EXCEPT !.status = status]
<1>1. m.status = status
  BY Located DEF TypeInv, Locals
<1>2. Step(t, "answer", m)
  BY DEF Stop
<1> HIDE DEF m
<1>3. Acting("answer", m, ledger', sources', extracts')
  BY <1>1 DEF Acting
<1> QED BY <1>2, <1>3, AckGoto

LEMMA TakeAck ==
  ASSUME TypeInv, AckInv, Grows, NEW t \in Threads, UNCHANGED tool, Take(t)
  PROVE  AckInv'
<1>1. PICK r \in inbox :
        Step(t, FirstAccess(r.call.op),
             [Idle EXCEPT !.request = r,
                          !.todo = IF r.call.op = "promote"
                                     THEN <<r.call.arg>> ELSE <<>>,
                          !.before = extracts])
  BY DEF Take
<1> DEFINE m == [Idle EXCEPT !.request = r,
                             !.todo = IF r.call.op = "promote"
                                        THEN <<r.call.arg>> ELSE <<>>,
                             !.before = extracts]
           label == FirstAccess(r.call.op)
<1>2. r.call \in Calls
  BY RequestFields DEF TypeInv, WireOK
<1>3. label \notin {"create", "log", "answer"}
  BY <1>2, CallFields DEF FirstAccess
<1>4. Step(t, label, m) /\ UNCHANGED answers
  BY <1>1 DEF Take
<1> HIDE DEF m, label
<1>5. Acting(label, m, ledger', sources', extracts')
  BY <1>3 DEF Acting
<1> QED BY <1>4, <1>5, AckGoto

LEMMA AnswerAck ==
  ASSUME TypeInv, AckInv, Grows, NEW t \in Threads, UNCHANGED tool, Answer(t)
  PROVE  AckInv'
<1>1. Acting("answer", mine[t], ledger', sources', extracts')
  BY ActingStays DEF Answer
<1>2. \A a \in answers' :
        a \in answers \/ a = [to |-> mine[t].request, status |-> mine[t].status]
  BY DEF Answer
<1>3. ASSUME NEW a \in answers', a \notin answers, a.status = "ok"
      PROVE  KeptIn(a.to.call, ledger', sources', extracts')
  <2>1. a.to = mine[t].request /\ a.status = mine[t].status
    BY <1>2, <1>3
  <2> QED BY <1>1, <1>3, <2>1 DEF Acting
<1>4. Step(t, "idle", Idle)
  BY DEF Answer
<1>5. /\ pc'[t] = "idle" /\ mine'[t] = Idle
      /\ \A u \in Threads \ {t} : pc'[u] = pc[u] /\ mine'[u] = mine[u]
  BY <1>4, Stepped DEF TypeInv
<1>6. Acting(pc'[t], mine'[t], ledger', sources', extracts')
  BY <1>5 DEF Acting
<1> QED BY <1>3, <1>5, <1>6, AckMoves

LEMMA IngestAck ==
  ASSUME TypeInv, SourceInv, AckInv, Grows, NEW t \in Threads, UNCHANGED tool,
         Ingest(t)
  PROVE  AckInv'
<1>0. UNCHANGED answers
  BY DEF Ingest, WriteSource, WriteExtract, WriteTable, wire
<1>1. CASE WriteSource(t)
  <2>1. CASE Call(t).arg = None
    BY <1>0, <1>1, <2>1, AckStop DEF WriteSource
  <2>2. CASE Call(t).arg # None
    <3>1. Step(t, "extract", mine[t])
      BY <1>1, <2>2 DEF WriteSource, Goto
    <3>2. Acting("extract", mine[t], ledger', sources', extracts')
      BY DEF Acting
    <3> QED BY <1>0, <3>1, <3>2, AckGoto
  <2> QED BY <2>1, <2>2
<1>2. CASE WriteExtract(t)
  <2>1. Step(t, "list_documents", mine[t])
    BY <1>2 DEF WriteExtract, Goto
  <2>2. Acting("list_documents", mine[t], ledger', sources', extracts')
    BY DEF Acting
  <2> QED BY <1>0, <2>1, <2>2, AckGoto
<1>3. CASE WriteTable(t)
  <2>1. /\ pc[t] = "table" /\ Step(t, "answer", mine[t])
        /\ sources' = sources /\ extracts' = extracts
    BY <1>3 DEF WriteTable, Goto
  <2>2. /\ mine[t].request.call.op = "ingest"
        /\ mine[t].request.call.arg \in sources \cap extracts
    BY <2>1, Located DEF TypeInv, SourceInv, Filed, Placed, ExtractsHaveSources
  <2>3. Acting("answer", mine[t], ledger', sources', extracts')
    BY <2>1, <2>2 DEF Acting, KeptIn
  <2> QED BY <1>0, <2>1, <2>3, AckGoto
<1> QED BY <1>1, <1>2, <1>3 DEF Ingest

LEMMA ListAck ==
  ASSUME TypeInv, AckInv, Grows, NEW t \in Threads, UNCHANGED tool, List(t)
  PROVE  AckInv'
<1>0. UNCHANGED answers /\ Placed(pc[t], mine[t]) /\ mine[t] \in Locals
  BY Located DEF TypeInv, List, ListDocuments, ListCode, wire
<1>1. CASE ListDocuments(t)
  <2> DEFINE m == [mine[t] EXCEPT !.seen = extracts \cap Documents]
  <2>1. Step(t, "list_code", m)
    BY <1>1 DEF ListDocuments
  <2> HIDE DEF m
  <2>2. Acting("list_code", m, ledger', sources', extracts')
    BY DEF Acting
  <2> QED BY <1>0, <2>1, <2>2, AckGoto
<1>2. CASE ListCode(t)
  <2> DEFINE m == [mine[t] EXCEPT !.seen = @ \cup (extracts \cap Codes)]
  <2>1. /\ pc[t] = "list_code" /\ m.request = mine[t].request
        /\ Step(t, AfterListing(t), m)
    BY <1>0, <1>2 DEF ListCode, Locals
  <2> HIDE DEF m
  <2>2. /\ AfterListing(t) \in {"table", "answer"}
        /\ AfterListing(t) = "answer" => m.request.call.op = "search"
    BY <1>0, <2>1 DEF AfterListing, Placed, Call
  <2>3. Acting(AfterListing(t), m, ledger', sources', extracts')
    BY <2>2 DEF Acting, KeptIn
  <2> QED BY <1>0, <2>1, <2>3, AckGoto
<1> QED BY <1>1, <1>2 DEF List

LEMMA RefineAck ==
  ASSUME TypeInv, AckInv, Grows, NEW t \in Threads, UNCHANGED tool, Refine(t)
  PROVE  AckInv'
<1>0. UNCHANGED answers /\ Placed(pc[t], mine[t]) /\ mine[t] \in Locals
  BY Located DEF TypeInv, Refine, ReadPacket, Create, wire
<1>1. CASE ReadPacket(t)
  <2>0. pc[t] = "packet" /\ mine[t].request.call.op = "refine"
    BY <1>0, <1>1 DEF ReadPacket, Placed
  <2> DEFINE refused == Call(t).arg = None \/ (~packet /\ Call(t).arg # "inline")
  <2>1. CASE refused
    <3>1. PICK status : status # "ok" /\ Stop(t, status)
      BY <1>1, <2>1 DEF ReadPacket
    <3> QED BY <1>0, <3>1, AckStop
  <2>2. CASE ~refused /\ Call(t).arg # "draft" /\ Draft # <<>>
    <3> DEFINE m == [mine[t] EXCEPT !.todo = Draft]
    <3>1. Step(t, "create", m)
      BY <1>1, <2>2 DEF ReadPacket
    <3>2. m.todo = Draft
      BY <1>0, DraftType, TodoLocals
    <3> HIDE DEF m
    <3>3. Acting("create", m, ledger', sources', extracts')
      BY <3>2 DEF Acting
    <3> QED BY <1>0, <3>1, <3>3, AckGoto
  <2>3. CASE ~refused /\ ~(Call(t).arg # "draft" /\ Draft # <<>>)
    <3>1. Step(t, "answer", mine[t])
      BY <1>1, <2>3 DEF ReadPacket, Goto
    <3>2. mine[t].request.call.arg = "draft" \/ Len(Draft) = 0
      BY <2>3 DEF Call
    <3>3. KeptIn(mine[t].request.call, ledger', sources', extracts')
      BY <2>0, <3>2 DEF KeptIn
    <3>4. Acting("answer", mine[t], ledger', sources', extracts')
      BY <3>3 DEF Acting
    <3> QED BY <1>0, <3>1, <3>4, AckGoto
  <2> QED BY <2>1, <2>2, <2>3
<1>2. CASE Create(t)
  <2>1. pc[t] = "create" /\ Step(t, "log", mine[t])
    BY <1>2 DEF Create, Goto
  <2>2. Acting("create", mine[t], ledger', sources', extracts')
    BY <2>1, ActingStays
  <2>3. Acting("log", mine[t], ledger', sources', extracts')
    BY <2>2 DEF Acting
  <2> QED BY <1>0, <2>1, <2>3, AckGoto
<1> QED BY <1>1, <1>2 DEF Refine

LEMMA FailsAck ==
  ASSUME TypeInv, AckInv, Grows, NEW t \in Threads, UNCHANGED tool, Fails(t)
  PROVE  AckInv'
BY AckStop DEF Fails, wire

(* The line that is told is that of the object at the head.                *)
LEMMA LogAck ==
  ASSUME TypeInv, AckInv, Grows, NEW t \in Threads, UNCHANGED tool, Log(t)
  PROVE  AckInv'
<1> DEFINE rest == Tail(mine[t].todo)
           o == Head(mine[t].todo)
           m == [mine[t] EXCEPT !.todo = rest]
           label == IF rest = <<>> THEN "answer" ELSE "create"
<1>1. /\ pc[t] = "log" /\ UNCHANGED answers /\ Step(t, label, m)
      /\ Placed("log", mine[t]) /\ mine[t] \in Locals
  BY Located DEF TypeInv, Log, wire
<1>2. /\ mine[t].todo \in Seq(Objects) /\ mine[t].todo # <<>>
      /\ rest \in Seq(Objects)
      /\ \A i \in 1..Len(mine[t].todo) :
           mine[t].todo[i] = o \/ \E j \in 1..Len(rest) : rest[j] = mine[t].todo[i]
      /\ \A x : mine[t].todo = <<x>> => o = x /\ rest = <<>>
  BY <1>1, TodoSequence DEF Placed, Locals
<1>3. m.todo = rest /\ m.request = mine[t].request
  BY <1>1, <1>2, TodoLocals
<1>4. Acting("log", mine[t], ledger', sources', extracts')
  BY <1>1, ActingStays
<1>5. Recorded(ledger'[o], Event(t))
  BY GrowsByLog
<1> HIDE DEF m, rest, o
<1>6. rest = <<>> => Len(rest) = 0
  OBVIOUS
<1>7. CASE Call(t).op = "refine"
  <2>1. Refined(o, ledger')
    BY <1>5, <1>7 DEF Event, Refined
  <2>2. ASSUME NEW i \in 1..Len(Draft)
        PROVE  Refined(Draft[i], ledger')
                 \/ \E j \in 1..Len(rest) : rest[j] = Draft[i]
    <3>1. Refined(Draft[i], ledger')
            \/ \E j \in 1..Len(mine[t].todo) : mine[t].todo[j] = Draft[i]
      BY <1>4, <1>7 DEF Acting, Call
    <3> QED BY <1>2, <2>1, <3>1
  <2>3. CASE rest = <<>>
    <3>1. \A i \in 1..Len(Draft) : Refined(Draft[i], ledger')
      BY <1>6, <2>2, <2>3
    <3>2. KeptIn(m.request.call, ledger', sources', extracts')
      BY <1>3, <1>7, <3>1 DEF KeptIn, Call
    <3>3. Acting("answer", m, ledger', sources', extracts')
      BY <3>2 DEF Acting
    <3> QED BY <1>1, <2>3, <3>3, AckGoto
  <2>4. CASE rest # <<>>
    <3>1. Acting("create", m, ledger', sources', extracts')
      BY <1>3, <2>2 DEF Acting
    <3> QED BY <1>1, <2>4, <3>1, AckGoto
  <2> QED BY <2>3, <2>4
<1>8. CASE Call(t).op = "promote"
  <2>1. mine[t].todo = <<Call(t).arg>>
    BY <1>1, <1>8 DEF Placed, Call
  <2>2. o = Call(t).arg /\ rest = <<>>
    BY <1>2, <2>1
  <2>3. KeptIn(m.request.call, ledger', sources', extracts')
    BY <1>3, <1>5, <1>8, <2>2 DEF KeptIn, Event, Call
  <2>4. Acting("answer", m, ledger', sources', extracts')
    BY <2>3 DEF Acting
  <2> QED BY <1>1, <2>2, <2>4, AckGoto
<1> QED BY <1>1, <1>7, <1>8 DEF Placed, Call

LEMMA TellAck ==
  ASSUME TypeInv, AckInv, Grows, NEW t \in Threads, UNCHANGED tool, Tell(t)
  PROVE  AckInv'
<1>0. Placed(pc[t], mine[t]) /\ mine[t] \in Locals
  BY Located DEF TypeInv
<1>1. CASE Promote(t)
  <2>1. /\ pc[t] = "promote" /\ UNCHANGED answers
        /\ mine[t].request.call.op = "promote"
    BY <1>0, <1>1 DEF Promote, Placed, wire
  <2>2. CASE kb[Head(mine[t].todo)] = "candidate"
    <3>1. Step(t, "log", mine[t])
      BY <1>1, <2>2 DEF Promote, Goto
    <3>2. Acting("log", mine[t], ledger', sources', extracts')
      BY <2>1 DEF Acting
    <3> QED BY <2>1, <3>1, <3>2, AckGoto
  <2>3. CASE kb[Head(mine[t].todo)] # "candidate"
    <3> DEFINE status == Refusal(kb[Head(mine[t].todo)])
    <3>1. Stop(t, status) /\ status # "ok"
      BY <1>1, <2>3 DEF Promote, Refusal
    <3> HIDE DEF status
    <3> QED BY <2>1, <3>1, AckStop
  <2> QED BY <2>2, <2>3
<1>2. CASE Log(t)
  BY <1>2, LogAck
<1>3. CASE Audit(t)
  <2>1. PICK status : Stop(t, status)
    BY <1>3 DEF Audit
  <2> DEFINE m == [mine[t] EXCEPT !.status = status]
  <2>2. /\ Step(t, "answer", m) /\ UNCHANGED answers
        /\ m.request = mine[t].request /\ mine[t].request.call.op = "audit"
    BY <1>0, <1>3, <2>1 DEF Audit, Stop, wire, Placed, Locals
  <2> HIDE DEF m
  <2>3. Acting("answer", m, ledger', sources', extracts')
    BY <2>2 DEF Acting, KeptIn
  <2> QED BY <2>2, <2>3, AckGoto
<1> QED BY <1>1, <1>2, <1>3 DEF Tell

(* What leaves the threads alone or sets them all to idle.                 *)
LEMMA AckKept ==
  ASSUME TypeInv, AckInv, Grows,
         UNCHANGED threads
           \/ \A t \in Threads : pc'[t] = "idle" /\ mine'[t] = Idle,
         answers' \subseteq answers,
         \A c \in Clients : \A call \in tool'[c].done :
           call \in tool[c].done
             \/ \E a \in answers : a.status = "ok" /\ call = a.to.call
  PROVE  AckInv'
<1>1. ASSUME NEW t \in Threads
      PROVE  Acting(pc'[t], mine'[t], ledger', sources', extracts')
  <2>1. Acting(pc[t], mine[t], ledger', sources', extracts')
    BY ActingStays
  <2>2. CASE UNCHANGED threads
    BY <2>1, <2>2 DEF threads
  <2>3. CASE pc'[t] = "idle"
    BY <2>3 DEF Acting
  <2> QED BY <2>2, <2>3
<1>2. ASSUME NEW a \in answers, a.status = "ok"
      PROVE  KeptIn(a.to.call, ledger', sources', extracts')
  <2>1. a.to.call \in Calls
    BY RequestFields DEF TypeInv, WireOK, Answers
  <2>2. KeptIn(a.to.call, ledger, sources, extracts)
    BY <1>2 DEF AckInv
  <2> QED BY <2>1, <2>2, KeptStays
<1>3. ASSUME NEW c \in Clients, NEW call \in tool[c].done
      PROVE  KeptIn(call, ledger', sources', extracts')
  <2>1. call \in Calls
    BY DEF TypeInv, ClientsOK, Tools
  <2> QED BY <2>1, KeptStays DEF AckInv
<1> QED BY <1>1, <1>2, <1>3 DEF AckInv

(* A client takes note of the answers it has read to the end, no others.   *)
LEMMA ClientAck ==
  ASSUME TypeInv, AckInv, Grows, NEW c \in Clients, RequestJson(c)
  PROVE  AckInv'
<1>0. UNCHANGED threads /\ tool \in [Clients -> Tools]
  BY DEF TypeInv, ClientsOK, RequestJson, Send, Headers, Body, Timeout,
         ConnectionLost, vars, threads
<1>1. CASE Send(c) \/ Headers(c)
  <2>1. answers' = answers
    BY <1>1 DEF Send, Headers, vars
  <2>2. \A d \in Clients : tool'[d].done = tool[d].done
    BY <1>0, <1>1 DEF Send, Headers, Tools
  <2> QED BY <1>0, <2>1, <2>2, AckKept
<1>2. ASSUME NEW result \in Results, Waiting(c), Told(c, result), Close(c),
             UNCHANGED inbox,
             result = "ok" => \E a \in answers : a.to = tool[c].request
                                                /\ a.status = "ok"
      PROVE  AckInv'
  <2>1. answers' \subseteq answers
    BY <1>2, Closed DEF TypeInv
  <2>2. /\ \A d \in Clients \ {c} : tool'[d] = tool[d]
        /\ \A call \in tool'[c].done :
             \/ call \in tool[c].done
             \/ result = "ok" /\ call = tool[c].request.call
    BY <1>2, ToldMoves DEF TypeInv
  <2>3. \A d \in Clients : \A call \in tool'[d].done :
          call \in tool[d].done
            \/ \E a \in answers : a.status = "ok" /\ call = a.to.call
    BY <1>2, <2>2
  <2> QED BY <1>0, <2>1, <2>3, AckKept
<1>3. CASE Body(c)
  <2>1. PICK a \in answers : a.to = tool[c].request /\ Told(c, a.status)
    BY <1>3 DEF Body
  <2>2. a.status \in Results
    BY <2>1 DEF TypeInv, WireOK, Answers, Results
  <2> QED BY <1>2, <1>3, <2>1, <2>2 DEF Body, Waiting
<1>4. CASE Timeout(c) \/ ConnectionLost(c)
  BY <1>2, <1>4 DEF Timeout, ConnectionLost, Results
<1> QED BY <1>1, <1>3, <1>4 DEF RequestJson

LEMMA AckStep ==
  TypeInv /\ SourceInv /\ AckInv /\ [PluginNext]_allVars => AckInv'
<1> SUFFICES ASSUME TypeInv, SourceInv, AckInv, [PluginNext]_allVars
             PROVE  AckInv'
  OBVIOUS
<1>0. Grows
  BY GrowsAlways
<1>1. ASSUME NEW t \in Threads, Work(t), UNCHANGED tool PROVE AckInv'
  BY <1>0, <1>1, TakeAck, IngestAck, ListAck, RefineAck, TellAck, FailsAck,
     AnswerAck
     DEF Work
<1>2. CASE Surroundings /\ UNCHANGED tool
  <2>1. answers' \subseteq answers
    BY <1>2 DEF Surroundings, Archive, Crash, Restart, wire
  <2>2. UNCHANGED threads
          \/ \A t \in Threads : pc'[t] = "idle" /\ mine'[t] = Idle
    BY <1>2 DEF Surroundings, Archive, Crash, Restart
  <2> QED BY <1>0, <1>2, <2>1, <2>2, AckKept
<1>3. ASSUME NEW c \in Clients, RequestJson(c) PROVE AckInv'
  BY <1>0, <1>3, ClientAck
<1>4. CASE UNCHANGED allVars
  BY <1>0, <1>4, AckKept DEF allVars, vars, threads
<1> QED BY <1>1, <1>2, <1>3, <1>4 DEF PluginNext

LEMMA AckInitial == PluginInit => AckInv
BY DEF PluginInit, Init, AckInv, Acting, NoTool

(* What a client was told is done stays done: no overlap, retry, abandoned *)
(* call, crash or torn line takes a source, an object or its line back.    *)
THEOREM AcknowledgedStaysTrue == PluginSpec => []AcknowledgedIsKept
<1>1. PluginSpec => [](TypeInv /\ AckInv)
  BY TypeInitial, TypeStep, SourceInitial, SourceStep, AckInitial, AckStep, PTL
     DEF PluginSpec
<1>2. TypeInv /\ AckInv => AcknowledgedIsKept
  <2> SUFFICES ASSUME TypeInv, AckInv, NEW c \in Clients,
                      NEW call \in tool[c].done
               PROVE  Kept(call)
    BY DEF AcknowledgedIsKept
  <2>1. call \in Calls
    BY DEF TypeInv, ClientsOK, Tools
  <2> QED BY <2>1, KeptInKept DEF AckInv
<1> QED BY <1>1, <1>2, PTL

-----------------------------------------------------------------------------
(* What a crash costs a ledger.                                            *)

WholeIn(lines) == {i \in 1..Len(lines) : lines[i] \notin {"torn", "merged"}}

(* A torn line at the end is an event that is still to be lost.            *)
Costs(lines, appended, downs) ==
  appended - Cardinality(WholeIn(lines)) + (IF Torn(lines) THEN 1 ELSE 0) <= downs

CostInv == \A o \in Objects : Costs(ledger[o], logged[o], crashes)

LEMMA WholeIsFinite ==
  ASSUME NEW lines \in Seq(Lines)
  PROVE  IsFiniteSet(WholeIn(lines)) /\ Cardinality(WholeIn(lines)) \in Nat
<1>1. Len(lines) \in Nat /\ Len(lines) \in Int /\ 1 \in Int
  BY LenProperties
<1>2. IsFiniteSet(1..Len(lines))
  BY <1>1, FS_Interval
<1>3. IsFiniteSet(WholeIn(lines))
  BY <1>2, FS_Subset DEF WholeIn
<1> QED BY <1>3, FS_CardinalityType

(* An event after a whole line is a line more, after a torn one it is lost *)
(* with it.                                                                *)
LEMMA AppendCosts ==
  ASSUME NEW lines \in Seq(Lines), NEW n \in Nat, NEW k \in Nat, Costs(lines, n, k),
         NEW event \in {"candidate_created", "candidate_promoted"}
  PROVE  Costs(Appended(lines, event), n + 1, k)
<1> DEFINE new == Appended(lines, event)
<1>0. /\ Len(lines) \in Nat
      /\ IsFiniteSet(WholeIn(lines)) /\ Cardinality(WholeIn(lines)) \in Nat
  BY LenProperties, WholeIsFinite
<1>1. CASE Torn(lines)
  <2>1. Len(lines) \in 1..Len(lines) /\ lines[Len(lines)] = "torn"
    BY <1>0, <1>1, EmptySeq DEF Torn
  <2>2. new = [lines EXCEPT ![Len(lines)] = "merged"]
    BY <1>1 DEF Appended
  <2>3. Len(new) = Len(lines)
    BY <2>1, <2>2, ExceptSeq DEF Lines
  <2> HIDE DEF new
  <2>4. /\ new[Len(lines)] = "merged"
        /\ \A i \in 1..Len(lines) : i # Len(lines) => new[i] = lines[i]
    BY <1>0, <2>1, <2>2
  <2>5. WholeIn(new) = WholeIn(lines)
    BY <2>1, <2>3, <2>4 DEF WholeIn
  <2>6. ~Torn(new)
    BY <2>3, <2>4 DEF Torn
  <2> QED BY <1>0, <1>1, <2>5, <2>6 DEF Costs, new
<1>2. CASE ~Torn(lines)
  <2>1. new = Append(lines, event)
    BY <1>2 DEF Appended
  <2> HIDE DEF new
  <2>2. /\ Len(new) = Len(lines) + 1 /\ new[Len(lines) + 1] = event
        /\ \A i \in 1..Len(lines) : new[i] = lines[i]
    BY <2>1, AppendProperties DEF Lines
  <2>3. WholeIn(new) = WholeIn(lines) \cup {Len(lines) + 1}
    <3>1. 1..(Len(lines) + 1) = 1..Len(lines) \cup {Len(lines) + 1}
      BY <1>0
    <3>2. Len(lines) + 1 \notin 1..Len(lines)
      BY <1>0
    <3> QED BY <2>2, <3>1, <3>2 DEF WholeIn
  <2>4. Len(lines) + 1 \notin WholeIn(lines)
    BY <1>0 DEF WholeIn
  <2>5. Cardinality(WholeIn(new)) = Cardinality(WholeIn(lines)) + 1
    BY <1>0, <2>3, <2>4, FS_AddElement
  <2>6. ~Torn(new)
    BY <2>2 DEF Torn
  <2> QED BY <1>0, <1>2, <2>5, <2>6 DEF Costs, new
<1> QED BY <1>1, <1>2

LEMMA TearCosts ==
  ASSUME NEW lines \in Seq(Lines), NEW n \in Nat, NEW k \in Nat, Costs(lines, n, k)
  PROVE  Costs(TornOff(lines), n, k + 1)
<1> DEFINE new == TornOff(lines)
<1>0. Len(lines) \in Nat /\ Cardinality(WholeIn(lines)) \in Nat
  BY LenProperties, WholeIsFinite
<1>1. CASE Torn(lines)
  BY <1>0, <1>1 DEF Costs, TornOff
<1>2. CASE ~Torn(lines)
  <2>1. new = Append(lines, "torn")
    BY <1>2 DEF TornOff
  <2> HIDE DEF new
  <2>2. /\ Len(new) = Len(lines) + 1 /\ new[Len(lines) + 1] = "torn"
        /\ \A i \in 1..Len(lines) : new[i] = lines[i]
    BY <2>1, AppendProperties DEF Lines
  <2>3. WholeIn(new) = WholeIn(lines)
    <3>1. 1..(Len(lines) + 1) = 1..Len(lines) \cup {Len(lines) + 1}
      BY <1>0
    <3> QED BY <2>2, <3>1 DEF WholeIn
  <2> QED BY <1>0, <1>2, <2>3 DEF Costs, new
<1> QED BY <1>1, <1>2

LEMMA CostsMore ==
  ASSUME NEW lines \in Seq(Lines), NEW n \in Nat, NEW k \in Nat, Costs(lines, n, k)
  PROVE  Costs(lines, n, k + 1)
BY WholeIsFinite DEF Costs

LEMMA CostInitial == PluginInit => CostInv
<1> SUFFICES ASSUME PluginInit, NEW o \in Objects
             PROVE  Costs(ledger[o], logged[o], crashes)
  BY DEF CostInv
<1>1. ledger[o] = <<>> /\ logged[o] = 0 /\ crashes = 0
  BY DEF PluginInit, Init
<1>2. WholeIn(<<>>) = {} /\ ~Torn(<<>>)
  BY DEF WholeIn, Torn
<1>3. Cardinality(WholeIn(<<>>)) = 0
  BY <1>2, FS_EmptySet
<1> QED BY <1>1, <1>2, <1>3 DEF Costs

LEMMA CostStep == TypeInv /\ CostInv /\ [PluginNext]_allVars => CostInv'
<1> SUFFICES ASSUME TypeInv, CostInv, [PluginNext]_allVars PROVE CostInv'
  OBVIOUS
<1>1. /\ ledger \in [Objects -> Seq(Lines)] /\ logged \in [Objects -> Nat]
      /\ crashes \in Nat
  BY BoundsAssumption DEF TypeInv, StateOK
<1>2. CASE UNCHANGED <<ledger, logged, crashes>>
  BY <1>2 DEF CostInv
<1>3. ASSUME NEW t \in Threads, Log(t) PROVE CostInv'
  <2> DEFINE o == Head(mine[t].todo)
  <2>1. o \in Objects
    BY <1>3, GrowsByLog
  <2>2. Event(t) \in {"candidate_created", "candidate_promoted"}
    BY DEF Event
  <2>3. /\ ledger' = [ledger EXCEPT ![o] = Appended(ledger[o], Event(t))]
        /\ logged' = [logged EXCEPT ![o] = logged[o] + 1]
        /\ crashes' = crashes
    BY <1>3 DEF Log, server
  <2> HIDE DEF o
  <2>4. ASSUME NEW x \in Objects PROVE Costs(ledger'[x], logged'[x], crashes)
    <3>1. Costs(ledger[x], logged[x], crashes)
      BY DEF CostInv
    <3>2. CASE x = o
      <4>1. ledger'[x] = Appended(ledger[x], Event(t)) /\ logged'[x] = logged[x] + 1
        BY <1>1, <2>3, <3>2
      <4>2. Costs(Appended(ledger[x], Event(t)), logged[x] + 1, crashes)
        BY <1>1, <2>2, <3>1, AppendCosts
      <4> QED BY <4>1, <4>2
    <3>3. CASE x # o
      <4>1. ledger'[x] = ledger[x] /\ logged'[x] = logged[x]
        BY <1>1, <2>3, <3>3
      <4> QED BY <3>1, <4>1
    <3> QED BY <3>2, <3>3
  <2> QED BY <2>3, <2>4 DEF CostInv
<1>4. CASE Crash
  <2>1. PICK torn \in SUBSET BeingLogged :
          ledger' = [o \in Objects |-> IF o \in torn THEN TornOff(ledger[o])
                                                     ELSE ledger[o]]
    BY <1>4 DEF Crash
  <2>2. logged' = logged /\ crashes' = crashes + 1
    BY <1>4 DEF Crash
  <2>3. ASSUME NEW x \in Objects PROVE Costs(ledger'[x], logged[x], crashes + 1)
    BY <1>1, <2>1, TearCosts, CostsMore DEF CostInv
  <2> QED BY <2>2, <2>3 DEF CostInv
<1>5. \/ UNCHANGED <<ledger, logged, crashes>>
      \/ Crash
      \/ \E t \in Threads : Log(t)
  BY DEF PluginNext, allVars, vars, Work, Take, Ingest, WriteSource, WriteExtract,
     WriteTable, List, ListDocuments, ListCode, Refine, ReadPacket, Create, Fails,
     Tell, Promote, Audit, Answer, Surroundings, Archive, Restart, RequestJson, Send,
     Headers, Body, Timeout, ConnectionLost, knowledge, server
<1> QED BY <1>2, <1>3, <1>4, <1>5

(* A crash costs the ledger of an object at most one event: the one that   *)
(* LedgerStore appends next to the line the crash has torn, however many   *)
(* threads append to how many ledgers.                                     *)
THEOREM CrashCostsOne == PluginSpec => []OneLostPerCrash
<1>1. PluginSpec => [](TypeInv /\ CostInv)
  BY TypeInitial, TypeStep, CostInitial, CostStep, PTL DEF PluginSpec
<1>2. TypeInv /\ CostInv => OneLostPerCrash
  <2> SUFFICES ASSUME TypeInv, CostInv, NEW o \in Objects
               PROVE  logged[o] - Whole(o) <= crashes
    BY DEF OneLostPerCrash
  <2>1. ledger[o] \in Seq(Lines) /\ logged[o] \in Nat /\ crashes \in Nat
    BY BoundsAssumption DEF TypeInv, StateOK
  <2>2. Costs(ledger[o], logged[o], crashes) /\ Whole(o) = Cardinality(WholeIn(ledger[o]))
    BY DEF CostInv, Whole, WholeIn
  <2>3. Whole(o) \in Nat
    BY <2>1, <2>2, WholeIsFinite
  <2> QED BY <2>1, <2>2, <2>3 DEF Costs
<1> QED BY <1>1, <1>2, PTL
=============================================================================
