-------------------------------- MODULE Retrieval --------------------------------
(***************************************************************************)
(* The Phase 2 part of the Thin KB service: sources are ingested into      *)
(* files and a vector index, a hybrid search reads them back, and the      *)
(* experience packet of a task is refined into candidates of the KB, one   *)
(* by one, each with a line in its ledger.                                 *)
(*                                                                         *)
(* Requests wait in `inbox' until a thread of the pool takes one; answers  *)
(* go to connections that are still open.  An object of the KB is what     *)
(* KnowledgeBase makes of it, without text and revision: ThinKB looks into *)
(* its creation and promotion.  A step is an access to a file, a directory *)
(* or the KB.                                                              *)
(***************************************************************************)
EXTENDS Naturals, Sequences, FiniteSets

CONSTANTS Threads,    \* worker threads of the server
          Clients,    \* who sends requests
          MaxTries,   \* bound: requests one client sends
          MaxCrashes, \* bound: crashes of the server
          Documents,  \* ids of documents, and
          Codes,      \* of code: a slug of the title and a digest of the text
          Objects,    \* ids of KB objects
          Texts,      \* the candidates an experience packet names, in order:
                      \* claims, procedures, cases and decisions
          IdOf,       \* the id a text is given: its slug, cut short
          Calls       \* what a client may ask for

VARIABLES kb,       \* of each object: None or its tier
          ledger,   \* of each object: the lines of ledgers/kb_events/<id>.jsonl
          logged,   \* history: of each object, the events appended
          packet,   \* is the packet of the task under tasks/active
          sources,  \* ids with a file in kb/sources
          extracts, \* ids with a file in kb/extracts
          table,    \* ids with rows in the table hybrid_chunks
          serving,  \* is the server up
          crashes,  \* history: how often it went down
          inbox,    \* requests no thread has taken
          open,     \* requests whose client still waits
          answers,  \* answers on the way to their client
          pc,       \* of each thread: the access it makes next
          mine      \* of each thread: its local variables

files == <<sources, extracts, table>>
knowledge == <<kb, ledger, logged>>
server == <<serving, crashes>>
threads == <<pc, mine>>
wire == <<inbox, open, answers>>

vars == <<kb, ledger, logged, packet, sources, extracts, table, serving,
          crashes, inbox, open, answers, pc, mine>>

None == "none"

-----------------------------------------------------------------------------
(* Data.                                                                   *)

Sources == Documents \cup Codes
Tiers == {"candidate", "canonical"}

(* A line is an event, or what is left of one: `torn' has no end, `merged' *)
(* is a torn line and the event appended to it.                            *)
Lines == {"candidate_created", "candidate_promoted", "torn", "merged"}

AllCalls ==
  [op : {"ingest"}, arg : Sources \cup {None}]
  \cup [op : {"search"}, arg : {None}]
  \cup [op : {"refine"}, arg : {"persist", "inline", "draft", None}]
  \cup [op : {"promote", "audit"}, arg : Objects]

Requests == [from : Clients, try : 1..MaxTries, call : Calls]
Statuses == {"ok", "http_400", "http_404", "http_422", "http_500"}
Answers == [to : Requests, status : Statuses]

NoRequest == [from |-> None, try |-> 0, call |-> [op |-> None, arg |-> None]]

Idle == [request |-> NoRequest, todo |-> <<>>, seen |-> {}, before |-> {},
         status |-> "ok"]

ASSUME CallsAssumption == Calls \subseteq AllCalls
ASSUME TextsAssumption == /\ Texts \in Seq(DOMAIN IdOf)
                          /\ \A text \in DOMAIN IdOf : IdOf[text] \in Objects
ASSUME BoundsAssumption == MaxTries \in Nat /\ MaxCrashes \in Nat
ASSUME IdsAssumption == None \notin Sources /\ Documents \cap Codes = {}

(* The objects of the packet: different texts may have one id.             *)
Draft == [i \in 1..Len(Texts) |-> IdOf[Texts[i]]]

PCs == {"idle", "source", "extract", "list_documents", "list_code", "table",
        "packet", "create", "promote", "log", "audit", "answer"}

TypeOK ==
  /\ kb \in [Objects -> Tiers \cup {None}]
  /\ ledger \in [Objects -> Seq(Lines)]
  /\ logged \in [Objects -> Nat]
  /\ packet \in BOOLEAN /\ serving \in BOOLEAN /\ crashes \in 0..MaxCrashes
  /\ sources \subseteq Sources /\ extracts \subseteq Sources
  /\ table \subseteq Sources
  /\ inbox \subseteq Requests /\ open \subseteq Requests
  /\ answers \subseteq Answers
  /\ pc \in [Threads -> PCs]
  /\ \A t \in Threads :
       /\ mine[t].request \in Requests \cup {NoRequest}
       /\ mine[t].todo \in Seq(Objects)
       /\ mine[t].seen \cup mine[t].before \subseteq Sources
       /\ mine[t].status \in Statuses

Init ==
  /\ kb = [o \in Objects |-> None]
  /\ ledger = [o \in Objects |-> <<>>] /\ logged = [o \in Objects |-> 0]
  /\ packet = TRUE
  /\ sources = {} /\ extracts = {} /\ table = {}
  /\ serving = TRUE /\ crashes = 0
  /\ inbox = {} /\ open = {} /\ answers = {}
  /\ pc = [t \in Threads |-> "idle"]
  /\ mine = [t \in Threads |-> Idle]

-----------------------------------------------------------------------------
(* Control of a thread.                                                    *)

Call(t) == mine[t].request.call

Step(t, label, changed) ==
  /\ pc' = [pc EXCEPT ![t] = label]
  /\ mine' = [mine EXCEPT ![t] = changed]

Goto(t, label) == Step(t, label, mine[t])
Stop(t, status) == Step(t, "answer", [mine[t] EXCEPT !.status = status])

FirstAccess(op) ==
  CASE op = "ingest"  -> "source"
    [] op = "search"  -> "list_documents"
    [] op = "refine"  -> "packet"
    [] op = "promote" -> "promote"
    [] op = "audit"   -> "audit"

(* `before' is history: what a search that begins now has to find.         *)
Take(t) ==
  /\ serving /\ pc[t] = "idle"
  /\ \E r \in inbox :
       /\ inbox' = inbox \ {r}
       /\ Step(t, FirstAccess(r.call.op),
               [Idle EXCEPT !.request = r,
                            !.todo = IF r.call.op = "promote"
                                       THEN <<r.call.arg>> ELSE <<>>,
                            !.before = extracts])
  /\ UNCHANGED <<knowledge, packet, files, server, open, answers>>

(* A connection its client has closed takes no answer.                     *)
Answer(t) ==
  /\ pc[t] = "answer"
  /\ LET r == mine[t].request IN
     answers' = IF r \in open
                  THEN answers \cup {[to |-> r, status |-> mine[t].status]}
                  ELSE answers
  /\ Step(t, "idle", Idle)
  /\ UNCHANGED <<knowledge, packet, files, server, inbox, open>>

-----------------------------------------------------------------------------
(* ingest_document and ingest_code: the source, the extract, and the index *)
(* made anew from all extracts.                                            *)

(* Faulty variant: the extract is written before its source.               *)
WriteSourceLate(t) ==
  /\ pc[t] = "source"
  /\ extracts' = extracts \cup ({Call(t).arg} \ {None})
  /\ IF Call(t).arg = None THEN Stop(t, "http_400") ELSE Goto(t, "extract")
  /\ UNCHANGED <<knowledge, packet, sources, table, server, wire>>

(* No content and no path one may read, a path of no file, or Python that  *)
(* does not parse: refused before any write.                               *)
WriteSource(t) ==
  /\ pc[t] = "source"
  /\ IF Call(t).arg = None
       THEN /\ \E status \in {"http_400", "http_404", "http_500"} : Stop(t, status)
            /\ UNCHANGED sources
       ELSE /\ sources' = sources \cup {Call(t).arg}
            /\ Goto(t, "extract")
  /\ UNCHANGED <<knowledge, packet, extracts, table, server, wire>>

WriteExtract(t) ==
  /\ pc[t] = "extract"
  /\ extracts' = extracts \cup {Call(t).arg}
  /\ Goto(t, "list_documents")
  /\ UNCHANGED <<knowledge, packet, sources, table, server, wire>>

(* _extract_bundle_paths, for an index or a search: the directory of the   *)
(* documents is listed first and that of the code when those are read.     *)
ListDocuments(t) ==
  /\ pc[t] = "list_documents"
  /\ Step(t, "list_code",
          [mine[t] EXCEPT !.seen = extracts \cap Documents])
  /\ UNCHANGED <<knowledge, packet, files, server, wire>>

AfterListing(t) == IF Call(t).op = "ingest" THEN "table" ELSE "answer"

(* Faulty variant: the search takes what the index has.                    *)
ListCodeOfIndex(t) ==
  /\ pc[t] = "list_code"
  /\ Step(t, AfterListing(t),
          [mine[t] EXCEPT !.seen = IF Call(t).op = "search" THEN table
                                     ELSE @ \cup (extracts \cap Codes)])
  /\ UNCHANGED <<knowledge, packet, files, server, wire>>

(* Faulty variant: only the documents are listed.                          *)
ListCodeNot(t) ==
  /\ pc[t] = "list_code"
  /\ Goto(t, AfterListing(t))
  /\ UNCHANGED <<knowledge, packet, files, server, wire>>

ListCode(t) ==
  /\ pc[t] = "list_code"
  /\ Step(t, AfterListing(t),
          [mine[t] EXCEPT !.seen = @ \cup (extracts \cap Codes)])
  /\ UNCHANGED <<knowledge, packet, files, server, wire>>

(* The table is overwritten; if that fails, or the index is not enabled,   *)
(* nobody is told.                                                         *)
WriteTable(t) ==
  /\ pc[t] = "table"
  /\ table' = mine[t].seen \/ UNCHANGED table
  /\ Goto(t, "answer")
  /\ UNCHANGED <<knowledge, packet, sources, extracts, server, wire>>

-----------------------------------------------------------------------------
(* refine_writeback: a draft from the packet, of the active task or in the *)
(* request; when it is to be persisted, one candidate after the other with *)
(* its line in the ledger.                                                 *)

(* A request that names no task and has no packet, or an invalid one, is   *)
(* refused.                                                                *)
ReadPacket(t) ==
  /\ pc[t] = "packet"
  /\ IF Call(t).arg = None
       THEN \E status \in {"http_400", "http_422", "http_500"} : Stop(t, status)
       ELSE IF ~packet /\ Call(t).arg # "inline"
         THEN Stop(t, "http_404")
         ELSE IF Call(t).arg # "draft" /\ Draft # <<>>
           THEN Step(t, "create", [mine[t] EXCEPT !.todo = Draft])
           ELSE Goto(t, "answer")
  /\ UNCHANGED <<knowledge, packet, files, server, wire>>

Put(t, tier) == kb' = [kb EXCEPT ![Head(mine[t].todo)] = tier]

Create(t) ==
  /\ pc[t] = "create"
  /\ Put(t, "candidate")
  /\ Goto(t, "log")
  /\ UNCHANGED <<ledger, logged, packet, files, server, wire>>

(* Faulty variant: an object that cannot be written is passed over.        *)
FailsQuietly(t) ==
  /\ pc[t] \in {"create", "promote"}
  /\ LET rest == Tail(mine[t].todo) IN
     Step(t, IF rest = <<>> THEN "answer" ELSE "create",
          [mine[t] EXCEPT !.todo = rest])
  /\ UNCHANGED <<knowledge, packet, files, server, wire>>

(* A file that cannot be read or written, a manifest that is locked for    *)
(* too long: what is accessed stays as it was, what was made before stays  *)
(* made.  Only of the index is a failure not told.                         *)
Fails(t) ==
  /\ pc[t] \notin {"idle", "table", "answer"}
  /\ Stop(t, "http_500")
  /\ UNCHANGED <<knowledge, packet, files, server, wire>>

(* Faulty variant: a status the clients do not know.                       *)
RefusalConflict(tier) == "http_409"

Refusal(tier) == IF tier = None THEN "http_404" ELSE "http_422"

(* The operator's request, on the same objects.                            *)
Promote(t) ==
  /\ pc[t] = "promote"
  /\ LET tier == kb[Head(mine[t].todo)] IN
     IF tier = "candidate"
       THEN Put(t, "canonical") /\ Goto(t, "log")
       ELSE /\ Stop(t, Refusal(tier))
            /\ UNCHANGED kb
  /\ UNCHANGED <<ledger, logged, packet, files, server, wire>>

-----------------------------------------------------------------------------
(* The ledger of an object: a line is written, flushed and synchronized    *)
(* under a lock, and one that a crash has torn has no end of line.         *)

Torn(lines) == lines # <<>> /\ lines[Len(lines)] = "torn"

(* Faulty variant: the end of line goes before the event.                  *)
AppendedUnended(lines, event) ==
  IF Torn(lines) THEN lines ELSE Append(lines, event)

Appended(lines, event) ==
  IF Torn(lines) THEN [lines EXCEPT ![Len(lines)] = "merged"]
                 ELSE Append(lines, event)

TornOff(lines) == IF Torn(lines) THEN lines ELSE Append(lines, "torn")

Event(t) == IF Call(t).op = "promote" THEN "candidate_promoted"
                                      ELSE "candidate_created"

Log(t) ==
  /\ pc[t] = "log"
  /\ LET o    == Head(mine[t].todo)
         rest == Tail(mine[t].todo)
     IN  /\ ledger' = [ledger EXCEPT ![o] = Appended(@, Event(t))]
         /\ logged' = [logged EXCEPT ![o] = @ + 1]
         /\ Step(t, IF rest = <<>> THEN "answer" ELSE "create",
                 [mine[t] EXCEPT !.todo = rest])
  /\ UNCHANGED <<kb, packet, files, server, wire>>

(* Every line must be an event, or the whole report fails.                 *)
Readable(o) ==
  \A i \in 1..Len(ledger[o]) : ledger[o][i] \notin {"torn", "merged"}

Audit(t) ==
  /\ pc[t] = "audit"
  /\ Stop(t, IF Readable(Call(t).arg) THEN "ok" ELSE "http_500")
  /\ UNCHANGED <<knowledge, packet, files, server, wire>>

-----------------------------------------------------------------------------
(* The surroundings: the task is archived with its packet; the server goes *)
(* down, tearing lines that are being written, and comes up again.         *)

Archive ==
  /\ packet /\ packet' = FALSE
  /\ UNCHANGED <<knowledge, files, server, wire, threads>>

BeingLogged == {Head(mine[t].todo) : t \in {u \in Threads : pc[u] = "log"}}

Crash ==
  /\ serving /\ crashes < MaxCrashes
  /\ serving' = FALSE /\ crashes' = crashes + 1
  /\ \E torn \in SUBSET BeingLogged :
       ledger' = [o \in Objects |-> IF o \in torn THEN TornOff(ledger[o])
                                                  ELSE ledger[o]]
  /\ inbox' = {}
  /\ answers' \in {answers, {}}
  /\ pc' = [t \in Threads |-> "idle"]
  /\ mine' = [t \in Threads |-> Idle]
  /\ UNCHANGED <<kb, logged, packet, files, open>>

Restart ==
  /\ ~serving /\ serving' = TRUE
  /\ UNCHANGED <<knowledge, packet, files, crashes, wire, threads>>

Ingest(t) == WriteSource(t) \/ WriteExtract(t) \/ WriteTable(t)
List(t) == ListDocuments(t) \/ ListCode(t)
Refine(t) == ReadPacket(t) \/ Create(t)
Tell(t) == Promote(t) \/ Log(t) \/ Audit(t)

Work(t) ==
  Take(t) \/ Ingest(t) \/ List(t) \/ Refine(t) \/ Tell(t) \/ Fails(t) \/ Answer(t)

Surroundings == Archive \/ Crash \/ Restart
=============================================================================
