------------------------------ MODULE PluginClient ------------------------------
(***************************************************************************)
(* The tools of the plugin adapter against the server of Retrieval.        *)
(* requestJson sends one request per call, with a timer that runs from     *)
(* before the connection until the body has been read.  When it goes off   *)
(* the client closes the connection and reports "timeout": the server goes *)
(* on, and the agent may send the call again.                              *)
(***************************************************************************)
EXTENDS Retrieval

VARIABLE tool   \* of each client: its call under way, and what it was told

NoTool == [phase |-> "idle", try |-> 0, request |-> NoRequest, result |-> "ok",
           done |-> {}]

Results == Statuses \cup {"timeout", "request_failed"}

ToolOK ==
  \A c \in Clients :
    /\ tool[c].phase \in {"idle", "waiting", "reading"}
    /\ tool[c].try \in 0..MaxTries
    /\ tool[c].request \in Requests \cup {NoRequest}
    /\ tool[c].result \in Results
    /\ tool[c].done \subseteq Calls

allVars == <<vars, tool>>

PluginInit == Init /\ tool = [c \in Clients |-> NoTool]

-----------------------------------------------------------------------------
(* requestJson.                                                            *)

Waiting(c) == tool[c].phase # "idle"

(* The connection of the request is no more, and so is what is on its way  *)
(* to it.                                                                  *)
Close(c) ==
  /\ open' = open \ {tool[c].request}
  /\ answers' = {a \in answers : a.to # tool[c].request}

Told(c, result) ==
  tool' = [tool EXCEPT ![c].phase = "idle", ![c].request = NoRequest,
                       ![c].result = result,
                       ![c].done = IF result = "ok"
                                     THEN @ \cup {tool[c].request.call} ELSE @]

Send(c) ==
  /\ ~Waiting(c) /\ tool[c].try < MaxTries
  /\ \E call \in Calls :
       LET r == [from |-> c, try |-> tool[c].try + 1, call |-> call] IN
       IF serving
         THEN /\ inbox' = inbox \cup {r} /\ open' = open \cup {r}
              /\ tool' = [tool EXCEPT ![c].phase = "waiting", ![c].try = r.try,
                                      ![c].request = r]
         ELSE /\ tool' = [tool EXCEPT ![c].try = r.try,
                                      ![c].result = "request_failed"]
              /\ UNCHANGED <<inbox, open>>
  /\ UNCHANGED <<knowledge, packet, files, server, threads, answers>>

(* fetch resolves with the headers of the answer.                          *)
Headers(c) ==
  /\ tool[c].phase = "waiting"
  /\ \E a \in answers : a.to = tool[c].request
  /\ tool' = [tool EXCEPT ![c].phase = "reading"]
  /\ UNCHANGED vars

(* The body is read and the status told.                                   *)
Body(c) ==
  /\ tool[c].phase = "reading"
  /\ \E a \in answers : a.to = tool[c].request /\ Told(c, a.status)
  /\ Close(c)
  /\ UNCHANGED <<knowledge, packet, files, server, threads, inbox>>

(* Faulty variant: the timer is cleared as soon as fetch resolves.         *)
TimeoutOfHeaders(c) ==
  /\ tool[c].phase = "waiting"
  /\ Told(c, "timeout") /\ Close(c)
  /\ UNCHANGED <<knowledge, packet, files, server, threads, inbox>>

(* Faulty variant: the server drops the request with its connection.       *)
TimeoutCancels(c) ==
  /\ Waiting(c)
  /\ Told(c, "timeout") /\ Close(c)
  /\ pc' = [t \in Threads |->
              IF mine[t].request = tool[c].request THEN "idle" ELSE pc[t]]
  /\ mine' = [t \in Threads |->
                IF mine[t].request = tool[c].request THEN Idle ELSE mine[t]]
  /\ UNCHANGED <<knowledge, packet, files, server, inbox>>

(* AbortError: of the server's side only the connection is gone.           *)
Timeout(c) ==
  /\ Waiting(c)
  /\ Told(c, "timeout") /\ Close(c)
  /\ UNCHANGED <<knowledge, packet, files, server, threads, inbox>>

(* The server went down with the request.                                  *)
ConnectionLost(c) ==
  /\ Waiting(c)
  /\ tool[c].request \notin inbox
  /\ \A t \in Threads : mine[t].request # tool[c].request
  /\ \A a \in answers : a.to # tool[c].request
  /\ Told(c, "request_failed") /\ Close(c)
  /\ UNCHANGED <<knowledge, packet, files, server, threads, inbox>>

RequestJson(c) ==
  Send(c) \/ Headers(c) \/ Body(c) \/ Timeout(c) \/ ConnectionLost(c)

PluginNext ==
  \/ (\E t \in Threads : Work(t)) /\ UNCHANGED tool
  \/ Surroundings /\ UNCHANGED tool
  \/ \E c \in Clients : RequestJson(c)

(* A thread that can go on does, and the timer goes off.  Nothing makes a  *)
(* client send, the network deliver, or a server that is down come up.     *)
Fairness ==
  /\ \A t \in Threads : WF_vars(Work(t))
  /\ \A c \in Clients : WF_allVars(Timeout(c))

PluginSpec == PluginInit /\ [][PluginNext]_allVars /\ Fairness

-----------------------------------------------------------------------------
(* Properties.                                                             *)

PluginTypeOK == TypeOK /\ ToolOK

(* Every answer the agent was given stays true, whatever it sends again,   *)
(* gives up or overlaps, and whatever crashes: the creation of each        *)
(* candidate of a packet whose refine was answered "ok" is told by its     *)
(* ledger, as a promotion is; an ingested source has both its files.       *)
(* (What then stands in the KB depends on what overlaps inside an access   *)
(* to it, and is ThinKB's matter.)                                         *)
LedgerHas(o, event) ==
  \E i \in 1..Len(ledger[o]) : ledger[o][i] \in {event, "merged"}

Kept(call) ==
  CASE call.op = "ingest" -> call.arg \in sources \cap extracts
    [] call.op = "promote" -> LedgerHas(call.arg, "candidate_promoted")
    [] call.op = "refine" /\ call.arg # "draft" ->
         \A i \in 1..Len(Draft) : LedgerHas(Draft[i], "candidate_created")
    [] OTHER -> TRUE

AcknowledgedIsKept == \A c \in Clients : \A call \in tool[c].done : Kept(call)

(* A search that is answered finds every extract that was there when it began, also one the *)
(* index has missed or has lost to an older snapshot.                      *)
SearchSeesIngested ==
  \A t \in Threads :
    pc[t] = "answer" /\ mine[t].status = "ok" /\ mine[t].request.call.op = "search"
      => mine[t].before \subseteq mine[t].seen

(* An extract and a row of the index have the file of their source, also   *)
(* after a crash between the two writes.                                   *)
ExtractsHaveSources == table \subseteq extracts /\ extracts \subseteq sources

(* An index that an ingestion has written has that source, though it may   *)
(* lack others that were ingested meanwhile.                               *)
IngestIndexesItself ==
  [][\A t \in Threads :
       pc[t] = "table" /\ pc'[t] # "table" /\ serving' /\ table' # table
         => mine[t].request.call.arg \in table']_allVars

(* A crash costs the ledger of an object at most the one event that is     *)
(* appended next to the line it has torn.                                  *)
Whole(o) ==
  Cardinality({i \in 1..Len(ledger[o]) : ledger[o][i] \notin {"torn", "merged"}})

OneLostPerCrash == \A o \in Objects : logged[o] - Whole(o) <= crashes

(* No call of a tool hangs: not over a slow server, nor one that dies      *)
(* before, between or after the headers and the body of its answer.        *)
CallsEnd == \A c \in Clients : Waiting(c) ~> ~Waiting(c)

(* Giving up does not stop the server: a refine that has begun to persist  *)
(* goes on to its end, and what a retry meets is what it has made.         *)
AbortDoesNotCancel ==
  \A t \in Threads : pc[t] = "create" ~> (pc[t] = "answer" \/ ~serving)
=============================================================================
