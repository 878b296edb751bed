------------------------------- MODULE Evaluation --------------------------------
(***************************************************************************)
(* Evaluation runs as processes that share a tree of reports: the commands *)
(* eval, replay and release-check, the shadow pilot, the nightly job, and  *)
(* the scripts that compare two stored runs or summarize one.  A run is    *)
(* known by an id: a second on the clock, or what an operator gives it, so *)
(* that ids come again.  Processes are killed at any point.  Between and    *)
(* beside them the code, its contracts and the manifest are edited: what a *)
(* process imports or reads of these is any of what there may be then.     *)
(*                                                                         *)
(* A step is the evaluation itself, the replacement of a file, or a line   *)
(* in a ledger.                                                            *)
(***************************************************************************)
EXTENDS EvalGates, Sequences

CONSTANTS Procs,      \* processes
          Kinds,      \* what an operator starts
          Ids,        \* run ids
          Corpus,     \* the replay cases of the corpora,
          Pilot,      \* and those of the manifest of the shadow pilot
          Behaviours, \* what the code may make of the cases there are
          Seeds,      \* the reports there may be at first
          MaxStarts   \* bound: processes started

VARIABLES workspace, \* of each id: the process that made shadow_runs/<id> last
          report,    \* of each id: the files under reports/*/<id>
          lines,     \* of each id: the lines in ledgers/releases
          started,   \* history: how many processes were started, and
          author,    \* of each id: the kind of run that has written run.json
                     \* last, if it was then and since the only run of the id
          pc,        \* of each process: its next step
          mine       \* of each process: its local variables

disk == <<workspace, report, lines>>
histories == <<started, author>>

vars == <<workspace, report, lines, started, author, pc, mine>>

AllKinds == {"eval", "replay", "release", "shadow", "nightly",
             "compare", "summarize"}
Runs == AllKinds \ {"compare", "summarize"}

NoResults == [gold |-> NoCases, replay |-> NoCases]

(* `run' is eval/<id>/run.json, `details' the files of results beside it,  *)
(* `comparison' comparison.json there, `replay' replay/<id>, `release'     *)
(* release-check/<id>, `summary' shadow/<id>; `made' tells which exist,    *)
(* and whether the directory eval/<id> does.                               *)
NoReport == [made |-> {}, run |-> NoResults, details |-> NoResults,
             replay |-> NoCases, comparison |-> NoComparison,
             release |-> None, summary |-> {}]

Idle == [kind |-> None, id |-> None, against |-> None, results |-> NoResults,
         base |-> NoResults, comparison |-> NoComparison, status |-> None,
         retried |-> FALSE]

ASSUME KindsAssumption == Kinds \subseteq AllKinds
ASSUME BoundsAssumption == MaxStarts \in Nat
ASSUME IdsAssumption == None \notin Ids
ASSUME CorporaAssumption == Corpus \subseteq Replays /\ Pilot \subseteq Replays
ASSUME BehavioursAssumption == Behaviours \subseteq Results

(* What may be in the files of an id.                                      *)
Files == {"dir", "run", "details", "replay", "comparison", "release", "summary"}
Reports ==
  [made : SUBSET Files, run : Results, details : Results,
   replay : UNION {[S -> ReplayOutcomes] : S \in SUBSET Replays},
   comparison : {c \in Comparisons : c.kind # "missing"},
   release : {None, "ok", "failed", "blocked"}, summary : SUBSET Replays]

(* The files that write_eval_run makes, all of them and all of one run.    *)
Whole(files) ==
  "run" \in files.made =>
    /\ {"details", "replay"} \subseteq files.made
    /\ files.details = files.run
    /\ files.replay = files.run.replay

(* No file is there without those that are written before it.              *)
Closed(made) ==
  /\ "run" \in made => "dir" \in made
  /\ "details" \in made => "run" \in made
  /\ "replay" \in made => "details" \in made
  /\ "comparison" \in made => "run" \in made
  /\ "release" \in made => "replay" \in made

(* At first there are reports of runs that came to their end.              *)
ASSUME SeedsAssumption ==
  \A seed \in Seeds : /\ seed \in [Ids -> Reports]
                      /\ \A i \in Ids : Whole(seed[i]) /\ Closed(seed[i].made)

PCs == {"idle", "prepare", "collect", "run", "details", "replay", "compare",
        "comparison", "report", "line", "release_line", "summary"}

TypeOK ==
  /\ workspace \in [Ids -> Procs \cup {None}]
  /\ \A i \in Ids :
       /\ DOMAIN report[i].run.gold \in SUBSET Golds
       /\ DOMAIN report[i].run.replay \in SUBSET Replays
       /\ report[i].comparison.kind \in {None, "made"}
       /\ report[i].release \in {None, "ok", "failed", "blocked"}
       /\ report[i].summary \subseteq Replays
  /\ started \in 0..MaxStarts
  /\ author \in [Ids -> Runs \cup {None}]
  /\ pc \in [Procs -> PCs]
  /\ \A p \in Procs : (pc[p] = "idle") = (mine[p] = Idle)

Init ==
  /\ report \in Seeds
  /\ workspace = [i \in Ids |-> None]
  /\ lines = [i \in Ids |-> <<>>]
  /\ author = [i \in Ids |-> IF "run" \in report[i].made THEN "eval" ELSE None]
  /\ started = 0
  /\ pc = [p \in Procs |-> "idle"]
  /\ mine = [p \in Procs |-> Idle]

-----------------------------------------------------------------------------
(* Control.                                                                *)

Step(p, label, changed) ==
  /\ pc' = [pc EXCEPT ![p] = label]
  /\ mine' = [mine EXCEPT ![p] = changed]

Goto(p, label) == Step(p, label, mine[p])
Finish(p) == Step(p, "idle", Idle)

My(p) == report[mine[p].id]

Filed(files, file, content) ==
  [files EXCEPT ![file] = content, !.made = @ \cup {file}]

PutFile(p, file, content) ==
  report' = [report EXCEPT ![mine[p].id] = Filed(@, file, content)]

Stored(i) == i \in Ids /\ "run" \in report[i].made

(* What the process has imported, and the cases it has read: a replay run  *)
(* no gold queries, a shadow run the replay cases of its manifest.         *)
Loaded(kind, code) ==
  [gold |-> IF kind = "replay" THEN NoCases ELSE code.gold,
   replay |-> LET cases == IF kind = "shadow" THEN Pilot ELSE Corpus
              IN  [c \in DOMAIN code.replay \cap cases |-> code.replay[c]]]

On(p, i) == mine[p].id = i /\ mine[p].kind \in Runs
Others(p, i) == \E q \in Procs \ {p} : On(q, i)

(* Of the ids in `spoiled' it is no more known whose files there are.      *)
Spoil(spoiled) ==
  author' = [i \in Ids |-> IF i \in spoiled THEN None ELSE author[i]]

(* Two runs of one id at a time spoil each other's files.                  *)
Shared(p, i) == IF Others(p, i) THEN {i} ELSE {}

StartRun(p) ==
  \E kind \in Kinds \cap Runs, i \in Ids, code \in Behaviours :
    /\ Step(p, "prepare", [Idle EXCEPT !.kind = kind, !.id = i,
                                       !.results = Loaded(kind, code)])
    /\ Spoil(Shared(p, i))

(* compare_eval_runs and generate_shadow_summary, on ids of the operator's. *)
StartScript(p) ==
  /\ \/ /\ "compare" \in Kinds
        /\ \E i, b \in Ids :
             Step(p, "compare", [Idle EXCEPT !.kind = "compare", !.id = i,
                                             !.against = b])
     \/ /\ "summarize" \in Kinds
        /\ \E i \in Ids :
             Step(p, "summary", [Idle EXCEPT !.kind = "summarize", !.id = i])
  /\ UNCHANGED author

Start(p) ==
  /\ pc[p] = "idle" /\ started < MaxStarts
  /\ started' = started + 1
  /\ StartRun(p) \/ StartScript(p)
  /\ UNCHANGED <<disk>>

-----------------------------------------------------------------------------
(* EvaluationRunner.run: the workspace of the id is removed and made anew, *)
(* then the cases are evaluated in it; write_eval_run then makes the       *)
(* directory of the report.                                                *)

Prepare(p) ==
  /\ pc[p] = "prepare"
  /\ workspace' = [workspace EXCEPT ![mine[p].id] = p]
  /\ Goto(p, "collect")
  /\ UNCHANGED <<report, lines, histories>>

(* When another run of the id has taken the workspace away, anything may   *)
(* come of the cases.                                                      *)
Collect(p) ==
  /\ pc[p] = "collect"
  /\ IF workspace[mine[p].id] = p
       THEN Goto(p, "run")
       ELSE \E b \in Behaviours :
              Step(p, "run", [mine[p] EXCEPT !.results = Loaded(mine[p].kind, b)])
  /\ report' = [report EXCEPT ![mine[p].id].made = @ \cup {"dir"}]
  /\ UNCHANGED <<workspace, lines, histories>>

(* A case that cannot be seeded, or a file that cannot be written, raises; *)
(* the nightly job is then tried once more as another run.  Files written  *)
(* until then stay.                                                        *)
Unfinished == {"details", "replay"}

Fails(p) ==
  /\ pc[p] \in {"collect", "run"} \cup Unfinished
  /\ LET torn == IF pc[p] \in Unfinished THEN {mine[p].id} ELSE {} IN
     IF mine[p].kind = "nightly" /\ ~mine[p].retried
       THEN \E i \in Ids : /\ Spoil(torn \cup Shared(p, i))
                           /\ Step(p, "prepare", [mine[p] EXCEPT !.id = i,
                                                                 !.retried = TRUE])
       ELSE Spoil(torn) /\ Finish(p)
  /\ UNCHANGED <<disk, started>>

-----------------------------------------------------------------------------
(* write_eval_run and write_replay_run_report, then what the kind of run   *)
(* makes of them.                                                          *)

WriteRun(p) ==
  /\ pc[p] = "run"
  /\ PutFile(p, "run", mine[p].results)
  /\ author' = [author EXCEPT ![mine[p].id] =
                  IF Others(p, mine[p].id) THEN None ELSE mine[p].kind]
  /\ Goto(p, "details")
  /\ UNCHANGED <<workspace, lines, started>>

(* Faulty variant: files that exist are left as they are.                  *)
WriteDetailsOnce(p) ==
  /\ pc[p] = "details"
  /\ IF "details" \in My(p).made THEN UNCHANGED report
                                 ELSE PutFile(p, "details", mine[p].results)
  /\ Goto(p, "replay")
  /\ UNCHANGED <<workspace, lines, histories>>

WriteDetails(p) ==
  /\ pc[p] = "details"
  /\ PutFile(p, "details", mine[p].results)
  /\ Goto(p, "replay")
  /\ UNCHANGED <<workspace, lines, histories>>

WriteReplay(p) ==
  /\ pc[p] = "replay"
  /\ PutFile(p, "replay", mine[p].results.replay)
  /\ Goto(p, CASE mine[p].kind \in {"eval", "replay"}     -> "line"
               [] mine[p].kind \in {"release", "nightly"} -> "compare"
               [] mine[p].kind = "shadow"                 -> "summary")
  /\ UNCHANGED <<workspace, lines, histories>>

(* Faulty variant: that there is no baseline is filed as a comparison too. *)
FiledAlways(found) == "comparison"

AfterCompare(found) == IF found THEN "comparison" ELSE "report"

(* The baseline is the one that environment or manifest name now, if any.  *)
(* The two run.json are read back, with the summaries of their ids.  A     *)
(* release check does without a baseline that has no directory, and raises *)
(* if there is one without a run.json; the others end, or raise.           *)
Compare(p) ==
  /\ pc[p] = "compare"
  /\ \E b \in IF mine[p].kind = "compare" THEN {mine[p].against}
                                           ELSE Ids \cup {None} :
     LET found == Stored(b) /\ Stored(mine[p].id)
         without == mine[p].kind = "release"
                    /\ (b = None \/ "dir" \notin report[b].made)
         made == Compared(report[b].run, My(p).run,
                          report[b].summary, My(p).summary)
         missing == b # None \/ Profile.requireBaseline
     IN  IF found \/ without
           THEN /\ Step(p, AfterCompare(found),
                        [mine[p] EXCEPT
                           !.against = IF found THEN b ELSE None,
                           !.base = IF found THEN report[b].run ELSE NoResults,
                           !.comparison = IF found THEN made
                                          ELSE IF missing THEN BaselineMissing
                                          ELSE NoComparison])
                /\ UNCHANGED author
           ELSE /\ Finish(p)
                /\ Spoil(IF mine[p].kind = "release" THEN {mine[p].id} ELSE {})
  /\ UNCHANGED <<disk, started>>

WriteComparison(p) ==
  /\ pc[p] = "comparison"
  /\ PutFile(p, "comparison", mine[p].comparison)
  /\ IF mine[p].kind = "release" THEN Goto(p, "report") ELSE Finish(p)
  /\ UNCHANGED <<workspace, lines, histories>>

(* The contracts are compared with the frozen ones as they are now.        *)
Statuses(p) ==
  {Overall(mine[p].results, drift, mine[p].comparison) : drift \in BOOLEAN}

(* Faulty variant: the report of an id is written once.                    *)
ReportOnce(p) ==
  /\ pc[p] = "report"
  /\ \E status \in Statuses(p) :
       /\ IF "release" \in My(p).made THEN UNCHANGED report
                                      ELSE PutFile(p, "release", status)
       /\ Step(p, "line", [mine[p] EXCEPT !.status = status])
  /\ UNCHANGED <<workspace, lines, histories>>

Report(p) ==
  /\ pc[p] = "report"
  /\ \E status \in Statuses(p) :
       /\ PutFile(p, "release", status)
       /\ Step(p, "line", [mine[p] EXCEPT !.status = status])
  /\ UNCHANGED <<workspace, lines, histories>>

(* The line in ledgers/replay_runs, which names the report and no result.  *)
ReplayLine(p) ==
  /\ pc[p] = "line"
  /\ IF mine[p].kind = "release" THEN Goto(p, "release_line") ELSE Finish(p)
  /\ UNCHANGED <<disk, histories>>

(* The line in ledgers/releases.  What the status was decided on is        *)
(* history: the results, the baseline and what run.json held of it, and    *)
(* whether the run had its id for itself since it wrote its own.           *)
ReleaseLine(p) ==
  /\ pc[p] = "release_line"
  /\ lines' = [lines EXCEPT ![mine[p].id] =
                 Append(@, [status |-> mine[p].status,
                            results |-> mine[p].results,
                            against |-> mine[p].against,
                            base |-> mine[p].base,
                            alone |-> author[mine[p].id] # None])]
  /\ Finish(p)
  /\ UNCHANGED <<workspace, report, histories>>

(* The pilot summarizes its own results, the script those it reads.        *)
WriteSummary(p) ==
  /\ pc[p] = "summary"
  /\ IF mine[p].kind = "shadow"
       THEN PutFile(p, "summary", Critical(mine[p].results))
       ELSE IF Stored(mine[p].id)
         THEN PutFile(p, "summary", Critical(My(p).run))
         ELSE UNCHANGED report
  /\ Finish(p)
  /\ UNCHANGED <<workspace, lines, histories>>

-----------------------------------------------------------------------------
Killed(p) ==
  /\ pc[p] # "idle"
  /\ Spoil(IF mine[p].kind \in Runs
             /\ pc[p] \notin {"prepare", "collect", "run"} THEN {mine[p].id} ELSE {})
  /\ Finish(p)
  /\ UNCHANGED <<disk, started>>

Evaluate(p) == Prepare(p) \/ Collect(p) \/ Fails(p)
Write(p) == WriteRun(p) \/ WriteDetails(p) \/ WriteReplay(p) \/ WriteSummary(p)
Judge(p) ==
  Compare(p) \/ WriteComparison(p) \/ Report(p) \/ ReplayLine(p) \/ ReleaseLine(p)
Work(p) == Evaluate(p) \/ Write(p) \/ Judge(p)

Next == \E p \in Procs : Start(p) \/ Work(p) \/ Killed(p)

Spec == Init /\ [][Next]_vars

-----------------------------------------------------------------------------
(* Properties.                                                             *)

(* A release that the ledger calls "ok", whatever other processes did, was *)
(* killed or edited meanwhile, has earned it: every replay case ended as   *)
(* expected, there were cases enough, a baseline where one is required,    *)
(* and of the cases that it shares with the baseline no more are lost than *)
(* the profile allows, to which fewer cases of a kind add one.  The last   *)
(* is exempt where another run of the id was at work between the write of  *)
(* run.json and the line: the file compared may be the other's.            *)
Accepted(results, c) == results.replay[c] = Expect[c]
Found(results, c) == results.gold[c].rank \in 1..5

Lost(base, results) ==
  {c \in DOMAIN base.replay \cap DOMAIN results.replay :
     Accepted(base, c) /\ ~Accepted(results, c)}
  \cup {c \in DOMAIN base.gold \cap DOMAIN results.gold \cap Positive :
          Found(base, c) /\ ~Found(results, c)}

Fewer(base, results) ==
  {m \in {"cases_total"} :
     \/ Cardinality(DOMAIN results.gold) < Cardinality(DOMAIN base.gold)
     \/ Cardinality(DOMAIN results.replay) < Cardinality(DOMAIN base.replay)}

Earned(line) ==
  /\ \A c \in DOMAIN line.results.replay : Accepted(line.results, c)
  /\ Cardinality(DOMAIN line.results.gold) >= Profile.minGold
  /\ Cardinality(DOMAIN line.results.replay) >= Profile.minReplay
  /\ Profile.requireBaseline => line.against # None
  /\ line.against # None /\ line.alone =>
       Cardinality(Lost(line.base, line.results) \cup Fewer(line.base, line.results))
         <= Profile.maxRegressed

OkIsEarned ==
  \A i \in Ids : \A n \in 1..Len(lines[i]) :
    lines[i][n].status = "ok" => Earned(lines[i][n])

(* No file of a report is ever there without those it rests on, whatever   *)
(* was killed.  Once nothing runs on an id, and its run.json was written   *)
(* by a run that came to the end of its files alone, run.json, the results *)
(* beside it and the replay report are all of that run, whatever earlier   *)
(* runs of the id were killed or overlapped.  A comparison, a release      *)
(* report and a summary are not among them: they may be an earlier run's.  *)
Settled(i) == \A p \in Procs : ~On(p, i)

WholeReports ==
  \A i \in Ids : /\ Closed(report[i].made)
                 /\ Settled(i) /\ author[i] # None => Whole(report[i])

(* A line in the ledger has a report, and a comparison if it was compared, *)
(* whatever was killed.  Where the last run that has written run.json is a *)
(* release check, and was alone, the ledger has a line of it, the release  *)
(* report says the same as the last line, and the results stored are those *)
(* that the line was decided on.                                           *)
Backed(i, line) ==
  /\ "release" \in report[i].made
  /\ line.against # None => "comparison" \in report[i].made /\ Stored(line.against)

LedgerBacked ==
  \A i \in Ids :
    /\ \A n \in 1..Len(lines[i]) : Backed(i, lines[i][n])
    /\ Settled(i) /\ author[i] = "release" =>
         /\ lines[i] # <<>>
         /\ report[i].release = lines[i][Len(lines[i])].status
         /\ report[i].run = lines[i][Len(lines[i])].results

(* A candidate with the same replay results whose answers are nowhere      *)
(* worse than the baseline's is not called a regression: no metric that    *)
(* compare_runs compares goes the wrong way for an improvement.  An answer *)
(* is no worse if the expected one comes no later, a query that should     *)
(* find nothing finds no more, and no top hit is newly of another version. *)
NoLater(old, new) ==
  \/ new.rank = old.rank /\ new.hits = old.hits
  \/ new.rank > 0 /\ (old.rank = 0 \/ new.rank <= old.rank)

NoWorse(c, old, new) ==
  /\ new.stray => old.stray
  /\ IF c \in Negative THEN new.hits => old.hits ELSE NoLater(old, new)

Improves(base, cand) ==
  /\ cand.replay = base.replay /\ DOMAIN cand.gold = DOMAIN base.gold
  /\ \A c \in DOMAIN base.gold : NoWorse(c, base.gold[c], cand.gold[c])

BetterPasses ==
  [][\A p \in Procs :
       pc[p] = "compare" /\ pc'[p] = "comparison" =>
         LET b == mine'[p].against IN
         Stored(b) /\ Improves(report[b].run, My(p).run)
         /\ My(p).summary \subseteq report[b].summary
           => mine'[p].comparison.status = "ok"]_vars
=============================================================================
