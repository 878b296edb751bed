----------------------------- MODULE EvaluationProofs -----------------------------
(***************************************************************************)
(* Theorems about Evaluation for any cases, profile, code and stored       *)
(* reports, any number of processes of any kind, and ids that are given    *)
(* any number of times.                                                    *)
(***************************************************************************)
EXTENDS Evaluation, FiniteSetTheorems, TLAPS

-----------------------------------------------------------------------------
(* The inductive invariant.                                                *)

Decisions == {None, "ok", "failed", "blocked"}

Locals == [kind : AllKinds \cup {None}, id : Ids \cup {None},
           against : Ids \cup {None}, results : Results, base : Results,
           comparison : Comparisons, status : Decisions, retried : BOOLEAN]

Lines == [status : Decisions, results : Results, against : Ids \cup {None},
          base : Results, alone : BOOLEAN]

(* What the place of a process says of its local variables.                *)
Placed(label, m) ==
  /\ label = "idle" <=> m = Idle
  /\ label # "idle" => m.id \in Ids /\ m.kind \in AllKinds
  /\ label \in {"prepare", "collect", "run", "details", "replay"} => m.kind \in Runs
  /\ label \in {"compare", "comparison"} => m.kind \in {"release", "nightly", "compare"}
  /\ label \in {"report", "release_line"} => m.kind = "release"
  /\ label = "line" => m.kind \in {"eval", "replay", "release"}
  /\ label = "summary" => m.kind \in {"shadow", "summarize"}
  /\ label = "comparison" => m.comparison.kind = "made"
  /\ m.kind = "compare" => m.against \in Ids

DiskOK == /\ workspace \in [Ids -> Procs \cup {None}]
          /\ report \in [Ids -> Reports]
          /\ lines \in [Ids -> Seq(Lines)]

ProcsOK == /\ pc \in [Procs -> PCs]
           /\ mine \in [Procs -> Locals]
           /\ \A p \in Procs : Placed(pc[p], mine[p])

CountsOK == started \in 0..MaxStarts /\ author \in [Ids -> Runs \cup {None}]

AfterRun == {"details", "replay", "compare", "comparison", "report", "line",
             "release_line", "summary"}

Reported(p) == mine[p].kind = "release" /\ pc[p] \in {"line", "release_line"}

(* What the place of a process says of the files there are.  None is ever  *)
(* removed, so that no other process disturbs it.                          *)
Ready(p) ==
  /\ pc[p] = "run" => "dir" \in My(p).made
  /\ pc[p] = "details" => "run" \in My(p).made
  /\ pc[p] = "replay" => "details" \in My(p).made
  /\ mine[p].kind \in Runs /\ pc[p] \in AfterRun \ Unfinished => "replay" \in My(p).made
  /\ pc[p] = "comparison" => "run" \in My(p).made /\ Stored(mine[p].against)
  /\ Reported(p) => "release" \in My(p).made
  /\ Reported(p) \/ pc[p] = "report" =>
       (mine[p].against # None =>
          "comparison" \in My(p).made /\ Stored(mine[p].against))

FilesOK ==
  /\ \A i \in Ids : Closed(report[i].made)
  /\ \A p \in Procs : Ready(p)
  /\ \A i \in Ids : \A n \in 1..Len(lines[i]) : Backed(i, lines[i][n])

(* An id whose run.json is known to be of one run that was alone: the run  *)
(* under way, if any, its files while it is, and the files and the line    *)
(* once it has ended.                                                      *)
Lone(i) == \A p, q \in Procs : On(p, i) /\ On(q, i) => p = q

Owned(i) ==
  \A p \in Procs : On(p, i) /\ pc[p] \in AfterRun =>
    /\ author[i] = mine[p].kind
    /\ report[i].run = mine[p].results
    /\ pc[p] = "replay" => report[i].details = mine[p].results
    /\ Reported(p) => report[i].release = mine[p].status

Between(i) ==
  (\A p \in Procs : On(p, i) => pc[p] \notin Unfinished) => Whole(report[i])

Told(i) ==
  author[i] = "release" /\ (\A p \in Procs : On(p, i) => pc[p] \notin AfterRun) =>
    /\ lines[i] # <<>>
    /\ report[i].release = lines[i][Len(lines[i])].status
    /\ report[i].run = lines[i][Len(lines[i])].results

Authored(i) ==
  author[i] # None => Lone(i) /\ Owned(i) /\ Between(i) /\ Told(i)

(* A release check knows what the baseline it names would lose, and what   *)
(* it says of itself in the end it has earned.                             *)
Judged(p) ==
  mine[p].kind = "release" /\ pc[p] \in {"comparison", "report"} =>
    /\ mine[p].comparison.kind = "made" <=> mine[p].against # None
    /\ mine[p].against # None /\ author[mine[p].id] # None =>
         Lost(mine[p].base, mine[p].results) \cup Fewer(mine[p].base, mine[p].results)
           \subseteq mine[p].comparison.regressed

LineOf(p) ==
  [status |-> mine[p].status, results |-> mine[p].results,
   against |-> mine[p].against, base |-> mine[p].base,
   alone |-> author[mine[p].id] # None]

Decided(p) == Reported(p) /\ mine[p].status = "ok" => Earned(LineOf(p))

Logged ==
  \A i \in Ids : \A n \in 1..Len(lines[i]) :
    lines[i][n].status = "ok" => Earned(lines[i][n])

Inv == /\ DiskOK /\ ProcsOK /\ CountsOK /\ FilesOK /\ Logged
       /\ \A i \in Ids : Authored(i)
       /\ \A p \in Procs : Judged(p) /\ Decided(p)

-----------------------------------------------------------------------------
(* Files and local variables.                                              *)

LEMMA NoResultsAre == NoResults \in Results /\ NoCases = [c \in {} |-> None]
<1>1. NoCases \in [{} -> GoldOutcomes] /\ NoCases \in [{} -> ReplayOutcomes]
  BY DEF NoCases
<1>2. DOMAIN NoCases = {}
  BY DEF NoCases
<1> HIDE DEF NoCases
<1>3. /\ NoCases \in UNION {[S -> GoldOutcomes] : S \in SUBSET Golds}
      /\ NoCases \in UNION {[S -> ReplayOutcomes] : S \in SUBSET Replays}
  BY <1>1
<1> QED BY <1>2, <1>3 DEF NoResults, Results, NoCases

LEMMA NoComparisonIs ==
  /\ NoComparison \in Comparisons /\ NoComparison.kind = None
  /\ BaselineMissing \in Comparisons /\ BaselineMissing.kind = "missing"
BY DEF NoComparison, BaselineMissing, Comparisons, None

LEMMA IdleIs == Idle \in Locals /\ Idle.kind = None /\ Idle.id = None /\ Placed("idle", Idle)
<1>1. Idle \in Locals
  BY NoResultsAre, NoComparisonIs DEF Idle, Locals, Decisions
<1> QED BY <1>1 DEF Idle, Placed, Runs, AllKinds, None

LEMMA ResultsAre ==
  ASSUME NEW r \in Results
  PROVE  /\ DOMAIN r.gold \subseteq Golds /\ DOMAIN r.replay \subseteq Replays
         /\ \A c \in DOMAIN r.gold : r.gold[c] \in GoldOutcomes
         /\ \A c \in DOMAIN r.replay : r.replay[c] \in ReplayOutcomes
         /\ \A c \in Negative \cap DOMAIN r.gold : r.gold[c].rank = 0
         /\ r.replay \in UNION {[S -> ReplayOutcomes] : S \in SUBSET Replays}
<1>1. /\ r.gold \in UNION {[S -> GoldOutcomes] : S \in SUBSET Golds}
      /\ r.replay \in UNION {[S -> ReplayOutcomes] : S \in SUBSET Replays}
      /\ \A c \in Negative \cap DOMAIN r.gold : r.gold[c].rank = 0
  BY DEF Results
<1>2. PICK S \in SUBSET Golds : r.gold \in [S -> GoldOutcomes]
  BY <1>1
<1>3. PICK T \in SUBSET Replays : r.replay \in [T -> ReplayOutcomes]
  BY <1>1
<1> QED BY <1>1, <1>2, <1>3

(* What the replacement of a file changes.                                 *)
Same(f, g, names) ==
  /\ "run" \in names => f.run = g.run
  /\ "details" \in names => f.details = g.details
  /\ "replay" \in names => f.replay = g.replay
  /\ "comparison" \in names => f.comparison = g.comparison
  /\ "release" \in names => f.release = g.release
  /\ "summary" \in names => f.summary = g.summary

LEMMA FiledMade ==
  ASSUME NEW r \in Reports, NEW file \in Files \ {"dir"}, NEW c
  PROVE  /\ Filed(r, file, c).made = r.made \cup {file}
         /\ Same(Filed(r, file, c), r, Files \ {file})
<1> USE DEF Filed, Reports, Same, Files
<1>1. CASE file = "run"
  BY <1>1
<1>2. CASE file = "details"
  BY <1>2
<1>3. CASE file = "replay"
  BY <1>3
<1>4. CASE file = "comparison"
  BY <1>4
<1>5. CASE file = "release"
  BY <1>5
<1>6. CASE file = "summary"
  BY <1>6
<1> QED BY <1>1, <1>2, <1>3, <1>4, <1>5, <1>6

LEMMA FiledRun ==
  ASSUME NEW r \in Reports, NEW c \in Results
  PROVE  Filed(r, "run", c) \in Reports /\ Filed(r, "run", c).run = c
BY DEF Filed, Reports, Files

LEMMA FiledDetails ==
  ASSUME NEW r \in Reports, NEW c \in Results
  PROVE  Filed(r, "details", c) \in Reports /\ Filed(r, "details", c).details = c
BY DEF Filed, Reports, Files

LEMMA FiledReplay ==
  ASSUME NEW r \in Reports, NEW c \in Results
  PROVE  /\ Filed(r, "replay", c.replay) \in Reports
         /\ Filed(r, "replay", c.replay).replay = c.replay
BY ResultsAre DEF Filed, Reports, Files

LEMMA FiledComparison ==
  ASSUME NEW r \in Reports, NEW c \in Comparisons, c.kind # "missing"
  PROVE  Filed(r, "comparison", c) \in Reports
BY DEF Filed, Reports, Files

LEMMA FiledRelease ==
  ASSUME NEW r \in Reports, NEW c \in Decisions
  PROVE  Filed(r, "release", c) \in Reports /\ Filed(r, "release", c).release = c
BY DEF Filed, Reports, Files, Decisions

LEMMA FiledSummary ==
  ASSUME NEW r \in Reports, NEW c \in SUBSET Replays
  PROVE  Filed(r, "summary", c) \in Reports
BY DEF Filed, Reports, Files

LEMMA PutFileIs ==
  ASSUME DiskOK, NEW p \in Procs, mine[p].id \in Ids, NEW file, NEW c,
         Filed(My(p), file, c) \in Reports, PutFile(p, file, c)
  PROVE  /\ report' \in [Ids -> Reports]
         /\ report'[mine[p].id] = Filed(report[mine[p].id], file, c)
         /\ \A i \in Ids : i # mine[p].id => report'[i] = report[i]
BY DEF DiskOK, PutFile, My

LEMMA StepMoves ==
  ASSUME ProcsOK, NEW p \in Procs, NEW label \in PCs, NEW m \in Locals,
         Placed(label, m), Step(p, label, m)
  PROVE  /\ ProcsOK' /\ pc'[p] = label /\ mine'[p] = m
         /\ \A q \in Procs \ {p} : pc'[q] = pc[q] /\ mine'[q] = mine[q]
BY DEF ProcsOK, Step

LEMMA Located ==
  ASSUME ProcsOK, NEW p \in Procs
  PROVE  /\ pc[p] \in PCs /\ mine[p] \in Locals /\ Placed(pc[p], mine[p])
         /\ pc[p] # "idle" => mine[p].id \in Ids
BY DEF ProcsOK, Placed

LEMMA OverallIs ==
  ASSUME NEW r, NEW drift, NEW c PROVE Overall(r, drift, c) \in {"ok", "failed", "blocked"}
BY DEF Overall

LEMMA InvTypeOK == Inv => TypeOK
<1> SUFFICES ASSUME Inv PROVE TypeOK
  OBVIOUS
<1> USE DEF Inv
<1>1. ASSUME NEW i \in Ids
      PROVE  /\ DOMAIN report[i].run.gold \in SUBSET Golds
             /\ DOMAIN report[i].run.replay \in SUBSET Replays
             /\ report[i].comparison.kind \in {None, "made"}
             /\ report[i].release \in {None, "ok", "failed", "blocked"}
             /\ report[i].summary \subseteq Replays
  <2>1. /\ report[i].run \in Results /\ report[i].comparison \in Comparisons
        /\ report[i].comparison.kind # "missing"
        /\ report[i].release \in {None, "ok", "failed", "blocked"}
        /\ report[i].summary \subseteq Replays
    BY DEF DiskOK, Reports
  <2>2. report[i].comparison.kind \in {None, "made"}
    BY <2>1 DEF Comparisons
  <2> QED BY <2>1, <2>2, ResultsAre
<1>2. \A p \in Procs : (pc[p] = "idle") = (mine[p] = Idle)
  BY DEF ProcsOK, Placed
<1> QED BY <1>1, <1>2 DEF TypeOK, DiskOK, CountsOK, ProcsOK

LEMMA InitInv == Init => Inv
<1> SUFFICES ASSUME Init PROVE Inv
  OBVIOUS
<1> USE DEF Init
<1>1. \A p \in Procs : pc[p] = "idle" /\ mine[p] = Idle
  OBVIOUS
<1>2. ProcsOK
  BY IdleIs DEF ProcsOK, PCs
<1>3. DiskOK
  <2>1. <<>> \in Seq(Lines)
    OBVIOUS
  <2> QED BY <2>1, SeedsAssumption DEF DiskOK
<1>4. CountsOK
  BY BoundsAssumption DEF CountsOK, Runs, AllKinds
<1>5. \A p \in Procs, i \in Ids : ~On(p, i)
  BY <1>1, IdleIs DEF On, Runs, AllKinds, None
<1>6. \A i \in Ids : Whole(report[i]) /\ Closed(report[i].made)
  BY SeedsAssumption
<1>7. \A i \in Ids : author[i] # "release"
  BY DEF None
<1>8. \A i \in Ids : Authored(i)
  BY <1>5, <1>6, <1>7 DEF Authored, Lone, Owned, Between, Told
<1>9. \A p \in Procs : Judged(p) /\ Decided(p) /\ Ready(p)
  BY <1>1 DEF Judged, Decided, Reported, Ready, AfterRun
<1>10. Logged /\ FilesOK
  BY <1>6, <1>9 DEF Logged, FilesOK
<1> QED BY <1>2, <1>3, <1>4, <1>8, <1>9, <1>10 DEF Inv

-----------------------------------------------------------------------------
(* What one process does leaves of the others.                             *)

Rest(p) == \A q \in Procs \ {p} : pc'[q] = pc[q] /\ mine'[q] = mine[q]

(* No file is removed.                                                     *)
Grows == \A i \in Ids : report[i].made \subseteq report'[i].made

(* It is never found out again whose files there are, while the run that   *)
(* has lost its own goes on.                                               *)
Uncured(p) ==
  \A q \in Procs \ {p} :
    mine[q].kind = "release" /\ pc[q] \in AfterRun /\ author[mine[q].id] = None
      => author'[mine[q].id] = None

LEMMA ReadyKept ==
  ASSUME ProcsOK, Grows, NEW q \in Procs, Ready(q), pc'[q] = pc[q], mine'[q] = mine[q]
  PROVE  Ready(q)'
<1>1. CASE pc[q] = "idle"
  BY <1>1 DEF Ready, AfterRun, Reported
<1>2. CASE pc[q] # "idle"
  <2>1. mine[q].id \in Ids
    BY <1>2, Located
  <2> QED BY <2>1 DEF Ready, Reported, Stored, My, Grows
<1> QED BY <1>1, <1>2

LEMMA EarnedStays ==
  ASSUME NEW line, NEW other, Earned(line),
         other.results = line.results, other.against = line.against,
         other.base = line.base, other.alone => line.alone
  PROVE  Earned(other)
BY DEF Earned

LEMMA JudgementKept ==
  ASSUME ProcsOK, NEW q \in Procs, Judged(q), Decided(q),
         pc'[q] = pc[q], mine'[q] = mine[q],
         mine[q].kind = "release" /\ pc[q] \in AfterRun /\ author[mine[q].id] = None =>
           author'[mine[q].id] = None
  PROVE  Judged(q)' /\ Decided(q)'
<1>1. Judged(q)'
  BY DEF Judged, AfterRun
<1>2. Decided(q)'
  <2> SUFFICES ASSUME Reported(q), mine[q].status = "ok"
               PROVE  Earned(LineOf(q)')
    BY DEF Decided, Reported, Earned, LineOf
  <2>1. Earned(LineOf(q))
    BY DEF Decided
  <2>2. LineOf(q)'.alone => LineOf(q).alone
    BY DEF LineOf, Reported, AfterRun
  <2>3. /\ LineOf(q)'.results = LineOf(q).results
        /\ LineOf(q)'.against = LineOf(q).against
        /\ LineOf(q)'.base = LineOf(q).base
    BY DEF LineOf
  <2> HIDE DEF LineOf
  <2> QED BY <2>1, <2>2, <2>3, EarnedStays
<1> QED BY <1>1, <1>2

(* A step keeps the invariant if it does so of its own process and of the  *)
(* ids.                                                                    *)
LEMMA StepIsLocal ==
  ASSUME Inv, NEW p \in Procs, Rest(p), Grows, Uncured(p),
         DiskOK', ProcsOK', CountsOK', lines' = lines,
         \A i \in Ids : Closed(report'[i].made),
         \A i \in Ids : Authored(i)',
         Ready(p)', Judged(p)', Decided(p)'
  PROVE  Inv'
<1>1. \A q \in Procs : Ready(q)' /\ Judged(q)' /\ Decided(q)'
  <2>1. ASSUME NEW q \in Procs, q # p PROVE Ready(q)' /\ Judged(q)' /\ Decided(q)'
    <3>1. /\ pc'[q] = pc[q] /\ mine'[q] = mine[q] /\ ProcsOK
          /\ Ready(q) /\ Judged(q) /\ Decided(q)
          /\ mine[q].kind = "release" /\ pc[q] \in AfterRun /\ author[mine[q].id] = None
             => author'[mine[q].id] = None
      BY <2>1 DEF Rest, Uncured, Inv, FilesOK
    <3> QED BY <3>1, ReadyKept, JudgementKept
  <2> QED BY <2>1
<1>2. ASSUME NEW i \in Ids, NEW n \in 1..Len(lines[i]) PROVE Backed(i, lines[i][n])'
  <2>1. Backed(i, lines[i][n])
    BY DEF Inv, FilesOK
  <2> DEFINE line == lines[i][n]
  <2>2. line' = line /\ Backed(i, line)
    BY <2>1
  <2> HIDE DEF line
  <2>3. Backed(i, line)'
    BY <2>2 DEF Backed, Grows, Stored
  <2> QED BY <2>3 DEF line
<1>3. FilesOK'
  BY <1>1, <1>2 DEF FilesOK
<1>4. Logged'
  BY DEF Inv, Logged, Earned
<1> QED BY <1>1, <1>3, <1>4 DEF Inv

(* Nothing that it is known of an id's files is changed.                   *)
RunFiles == {"run", "details", "replay", "release"}
SameFiles(f, g) == /\ Same(f, g, RunFiles)
                   /\ \A file \in RunFiles : file \in f.made <=> file \in g.made
Beside == \A i \in Ids : SameFiles(report'[i], report[i])

(* Of whose files there are, nothing is learnt.                            *)
Spoils == \A i \in Ids : author'[i] \in {author[i], None}

LEMMA UnchangedIsBeside == report' = report => Beside /\ Grows
BY DEF Beside, SameFiles, Same, Grows

LEMMA SpoilIs ==
  ASSUME NEW S, Spoil(S)
  PROVE  /\ CountsOK /\ started' \in 0..MaxStarts => CountsOK'
         /\ Spoils
         /\ \A i \in Ids : i \in S => author'[i] = None
         /\ \A i \in Ids : i \notin S => author'[i] = author[i]
<1>1. author' = [i \in Ids |-> IF i \in S THEN None ELSE author[i]]
  BY DEF Spoil
<1> QED BY <1>1 DEF CountsOK, Spoils

LEMMA SpoilsUncured ==
  ASSUME ProcsOK, Spoils, NEW p \in Procs PROVE Uncured(p)
<1>1. \A q \in Procs : pc[q] \in AfterRun => mine[q].id \in Ids
  BY Located DEF AfterRun
<1> QED BY <1>1 DEF Spoils, Uncured

(* Of an id nothing is disturbed by a process that leaves its files as     *)
(* they are, comes to it only if it is alone there, and leaves it neither  *)
(* among its writes nor, as a release check, before its line.              *)
LEMMA AuthoredKept ==
  ASSUME NEW p \in Procs, Rest(p), Beside, lines' = lines, NEW i \in Ids,
         Authored(i), author'[i] \in {author[i], None},
         author'[i] # None =>
           /\ On(p, i)' => On(p, i) \/ ~Others(p, i)
           /\ On(p, i)' /\ pc'[p] \in AfterRun =>
                /\ On(p, i) /\ pc[p] \in AfterRun /\ pc'[p] \notin Unfinished
                /\ mine'[p].kind = mine[p].kind /\ mine'[p].results = mine[p].results
                /\ Reported(p)' => Reported(p) /\ mine'[p].status = mine[p].status
           /\ On(p, i) => pc[p] \notin Unfinished
           /\ author[i] = "release" /\ On(p, i) /\ pc[p] \in AfterRun =>
                On(p, i)' /\ pc'[p] \in AfterRun
  PROVE  Authored(i)'
<1> SUFFICES ASSUME author'[i] # None
             PROVE  Lone(i)' /\ Owned(i)' /\ Between(i)' /\ Told(i)'
  BY DEF Authored
<1>1. author'[i] = author[i] /\ Lone(i) /\ Owned(i) /\ Between(i) /\ Told(i)
  BY DEF Authored
<1>2. \A q \in Procs \ {p} : /\ On(q, i)' <=> On(q, i)
                             /\ Reported(q)' <=> Reported(q)
                             /\ pc'[q] = pc[q] /\ mine'[q] = mine[q]
  BY DEF Rest, On, Reported
<1>3. SameFiles(report'[i], report[i])
  BY DEF Beside
<1>4. Lone(i)'
  <2>1. \A q \in Procs \ {p} : On(p, i)' => ~On(q, i)
    BY <1>1 DEF Others, Lone
  <2> QED BY <1>1, <1>2, <2>1 DEF Lone
<1>5. Owned(i)'
  <2> SUFFICES ASSUME NEW q \in Procs, On(q, i)', pc'[q] \in AfterRun
               PROVE  /\ author'[i] = mine'[q].kind
                      /\ report'[i].run = mine'[q].results
                      /\ pc'[q] = "replay" => report'[i].details = mine'[q].results
                      /\ Reported(q)' => report'[i].release = mine'[q].status
    BY DEF Owned
  <2>1. CASE q = p
    BY <1>1, <1>3, <2>1 DEF Owned, SameFiles, Same, RunFiles, Unfinished
  <2>2. CASE q # p
    BY <1>1, <1>2, <1>3, <2>2 DEF Owned, SameFiles, Same, RunFiles
  <2> QED BY <2>1, <2>2
<1>6. Between(i)'
  <2>1. Whole(report[i]) => Whole(report'[i])
    BY <1>3 DEF Whole, SameFiles, Same, RunFiles
  <2> SUFFICES ASSUME \A q \in Procs : On(q, i)' => pc'[q] \notin Unfinished
               PROVE  \A q \in Procs : On(q, i) => pc[q] \notin Unfinished
    BY <1>1, <2>1 DEF Between, Whole
  <2> QED BY <1>2
<1>7. Told(i)'
  <2> SUFFICES ASSUME author[i] = "release",
                      \A q \in Procs : On(q, i)' => pc'[q] \notin AfterRun
               PROVE  \A q \in Procs : On(q, i) => pc[q] \notin AfterRun
    BY <1>1, <1>3 DEF Told, SameFiles, Same, RunFiles
  <2> QED BY <1>2
<1> QED BY <1>4, <1>5, <1>6, <1>7

(* Nor by one that is at work on another.                                  *)
LEMMA AuthoredElsewhere ==
  ASSUME NEW p \in Procs, Rest(p), NEW i \in Ids, Authored(i),
         ~On(p, i), ~On(p, i)', report'[i] = report[i], author'[i] = author[i],
         lines'[i] = lines[i]
  PROVE  Authored(i)'
<1>1. \A q \in Procs : (On(q, i)' <=> On(q, i)) /\ (On(q, i) => q # p)
  BY DEF Rest, On
<1>2. \A q \in Procs : On(q, i) => /\ pc'[q] = pc[q] /\ mine'[q] = mine[q]
                                   /\ Reported(q)' <=> Reported(q)
  BY <1>1 DEF Rest, Reported
<1>3. Lone(i) => Lone(i)'
  BY <1>1 DEF Lone
<1>4. Owned(i) => Owned(i)'
  BY <1>1, <1>2 DEF Owned
<1>5. Between(i) => Between(i)'
  BY <1>1, <1>2 DEF Between, Whole
<1>6. Told(i) => Told(i)'
  BY <1>1, <1>2 DEF Told
<1> QED BY <1>3, <1>4, <1>5, <1>6 DEF Authored

-----------------------------------------------------------------------------
(* Steps that change no file that is of one run.                           *)

LEMMA StepGoesOn ==
  ASSUME Inv, NEW p \in Procs, NEW label \in PCs, NEW m \in Locals,
         Placed(label, m), Step(p, label, m),
         m.kind = mine[p].kind, m.id = mine[p].id,
         pc[p] \notin Unfinished, label \notin Unfinished,
         label \in AfterRun <=> pc[p] \in AfterRun,
         label \in AfterRun => m.results = mine[p].results,
         m.kind = "release" /\ label \in {"line", "release_line"} =>
           Reported(p) /\ m.status = mine[p].status,
         workspace' \in [Ids -> Procs \cup {None}],
         report' \in [Ids -> Reports], Beside, Grows,
         \A i \in Ids : Closed(report'[i].made), lines' = lines, UNCHANGED histories
  PROVE  /\ pc'[p] = label /\ mine'[p] = m
         /\ Ready(p)' /\ Judged(p)' /\ Decided(p)' => Inv'
<1> USE DEF histories
<1>1. ProcsOK' /\ pc'[p] = label /\ mine'[p] = m /\ Rest(p)
  BY StepMoves DEF Inv, Rest
<1>2. CountsOK' /\ DiskOK'
  BY DEF Inv, CountsOK, DiskOK
<1>3. Uncured(p)
  BY DEF Uncured
<1>4. \A i \in Ids : Authored(i)'
  <2> SUFFICES ASSUME NEW i \in Ids PROVE Authored(i)'
    OBVIOUS
  <2>1. Authored(i) /\ author'[i] = author[i]
    BY DEF Inv
  <2>2. /\ On(p, i)' <=> On(p, i)
        /\ Reported(p)' => Reported(p) /\ mine'[p].status = mine[p].status
    BY <1>1 DEF On, Reported
  <2> QED BY <1>1, <2>1, <2>2, AuthoredKept
<1> QED BY <1>1, <1>2, <1>3, <1>4, StepIsLocal

(* A process is no run any more: a script, a run that has nothing left to  *)
(* write, or one that is killed.                                           *)
LEMMA StepEnds ==
  ASSUME Inv, NEW p \in Procs, Finish(p), NEW S, Spoil(S),
         mine[p].kind \in Runs /\ pc[p] \in Unfinished => mine[p].id \in S,
         mine[p].kind = "release" /\ pc[p] \in AfterRun => mine[p].id \in S,
         workspace' \in [Ids -> Procs \cup {None}],
         report' \in [Ids -> Reports], Beside, Grows,
         \A i \in Ids : Closed(report'[i].made), lines' = lines, started' = started
  PROVE  Inv'
<1>1. ProcsOK' /\ pc'[p] = "idle" /\ mine'[p] = Idle /\ Rest(p)
  BY StepMoves, IdleIs DEF Inv, Rest, Finish, PCs
<1>2. CountsOK' /\ Spoils /\ \A i \in Ids : i \in S => author'[i] = None
  BY SpoilIs DEF Inv, CountsOK
<1>3. DiskOK' /\ Uncured(p)
  BY <1>2, SpoilsUncured DEF Inv, DiskOK
<1>4. \A i \in Ids : Authored(i)'
  <2> SUFFICES ASSUME NEW i \in Ids PROVE Authored(i)'
    OBVIOUS
  <2>1. Authored(i) /\ author'[i] \in {author[i], None}
    BY <1>2 DEF Inv, Spoils
  <2>2. ~On(p, i)'
    BY <1>1, IdleIs DEF On, Runs, AllKinds, None
  <2>3. ASSUME author'[i] # None, On(p, i) PROVE pc[p] \notin Unfinished
    BY <1>2, <2>3 DEF On
  <2>4. ASSUME author'[i] # None, author[i] = "release", On(p, i), pc[p] \in AfterRun
        PROVE  FALSE
    <3>1. author[i] = mine[p].kind
      BY <2>1, <2>4 DEF Authored, Owned, None
    <3> QED BY <1>2, <2>4, <3>1 DEF On
  <2> QED BY <1>1, <2>1, <2>2, <2>3, <2>4, AuthoredKept
<1>5. Ready(p)' /\ Judged(p)' /\ Decided(p)'
  BY <1>1 DEF Ready, Judged, Decided, Reported, AfterRun
<1> QED BY <1>1, <1>2, <1>3, <1>4, <1>5, StepIsLocal

(* A run begins, of an idle process or of a nightly job that is tried once *)
(* more.                                                                   *)
LEMMA StepBegins ==
  ASSUME Inv, NEW p \in Procs, NEW i \in Ids, NEW m \in Locals, NEW S, Spoil(S),
         Placed("prepare", m), Step(p, "prepare", m), m.id = i,
         pc[p] \in {"idle", "collect", "run"} \cup Unfinished,
         Others(p, i) => i \in S,
         pc[p] \in Unfinished => mine[p].id \in S,
         workspace' = workspace, report' = report, lines' = lines,
         started' \in 0..MaxStarts
  PROVE  Inv'
<1>1. ProcsOK' /\ pc'[p] = "prepare" /\ mine'[p] = m /\ Rest(p)
  BY StepMoves DEF Inv, Rest, PCs
<1>2. CountsOK' /\ Spoils /\ \A j \in Ids : j \in S => author'[j] = None
  BY SpoilIs DEF Inv
<1>3. DiskOK' /\ Uncured(p) /\ Beside /\ Grows
  BY <1>2, SpoilsUncured, UnchangedIsBeside DEF Inv, DiskOK
<1>4. \A j \in Ids : Authored(j)'
  <2> SUFFICES ASSUME NEW j \in Ids PROVE Authored(j)'
    OBVIOUS
  <2>1. Authored(j) /\ author'[j] \in {author[j], None}
    BY <1>2 DEF Inv, Spoils
  <2>2. ASSUME author'[j] # None, On(p, j)' PROVE ~Others(p, j)
    BY <1>1, <1>2, <2>2 DEF On
  <2>3. ASSUME author'[j] # None, On(p, j) PROVE pc[p] \notin AfterRun
    BY <1>2, <2>3 DEF On, AfterRun, Unfinished
  <2>4. pc'[p] \notin AfterRun /\ (pc[p] \in Unfinished => pc[p] \in AfterRun)
    BY <1>1 DEF AfterRun, Unfinished
  <2> QED BY <1>1, <1>3, <2>1, <2>2, <2>3, <2>4, AuthoredKept
<1>5. Ready(p)' /\ Judged(p)' /\ Decided(p)'
  BY <1>1 DEF Ready, Judged, Decided, Reported, AfterRun
<1>6. \A j \in Ids : Closed(report'[j].made)
  BY DEF Inv, FilesOK
<1> QED BY <1>1, <1>2, <1>3, <1>4, <1>5, <1>6, StepIsLocal

LEMMA UnchangedDisk ==
  ASSUME Inv, UNCHANGED disk
  PROVE  /\ workspace' \in [Ids -> Procs \cup {None}] /\ report' \in [Ids -> Reports]
         /\ Beside /\ Grows /\ lines' = lines /\ report' = report /\ workspace' = workspace
         /\ \A i \in Ids : Closed(report'[i].made)
BY UnchangedIsBeside DEF Inv, DiskOK, FilesOK, disk

(* A file that is not one of a run's.                                      *)
LEMMA OtherFileIsBeside ==
  ASSUME Inv, NEW p \in Procs, mine[p].id \in Ids,
         NEW file \in {"comparison", "summary"}, NEW c,
         file = "comparison" => "run" \in My(p).made,
         Filed(My(p), file, c) \in Reports, PutFile(p, file, c)
  PROVE  /\ report' \in [Ids -> Reports] /\ Beside /\ Grows
         /\ \A i \in Ids : Closed(report'[i].made)
         /\ file \in report'[mine[p].id].made
<1>1. /\ report' \in [Ids -> Reports]
      /\ report'[mine[p].id] = Filed(report[mine[p].id], file, c)
      /\ \A i \in Ids : i # mine[p].id => report'[i] = report[i]
  BY PutFileIs DEF Inv
<1>2. report[mine[p].id] \in Reports /\ \A i \in Ids : Closed(report[i].made)
  BY DEF Inv, DiskOK, FilesOK
<1>3. /\ report'[mine[p].id].made = report[mine[p].id].made \cup {file}
      /\ Same(report'[mine[p].id], report[mine[p].id], Files \ {file})
  <2> DEFINE r == report[mine[p].id]
  <2>1. file \in Files \ {"dir"} /\ r \in Reports
    BY <1>2 DEF Files
  <2> HIDE DEF r
  <2>2. /\ Filed(r, file, c).made = r.made \cup {file}
        /\ Same(Filed(r, file, c), r, Files \ {file})
    BY <2>1, FiledMade
  <2> QED BY <1>1, <2>2 DEF r
<1>4. SameFiles(report'[mine[p].id], report[mine[p].id])
  BY <1>3 DEF SameFiles, Same, RunFiles, Files
<1>5. Closed(report'[mine[p].id].made)
  BY <1>2, <1>3 DEF Closed, My
<1> QED BY <1>1, <1>2, <1>3, <1>4, <1>5 DEF Beside, SameFiles, Same, Grows

LEMMA KilledKeeps ==
  ASSUME Inv, NEW p \in Procs, Killed(p) PROVE Inv'
<1> DEFINE S == IF mine[p].kind \in Runs
                     /\ pc[p] \notin {"prepare", "collect", "run"} THEN {mine[p].id} ELSE {}
<1>1. Finish(p) /\ Spoil(S) /\ started' = started
  BY DEF Killed
<1>2. /\ mine[p].kind \in Runs /\ pc[p] \in Unfinished => mine[p].id \in S
      /\ mine[p].kind = "release" /\ pc[p] \in AfterRun => mine[p].id \in S
  BY DEF Unfinished, AfterRun, Runs, AllKinds
<1> HIDE DEF S
<1> QED BY <1>1, <1>2, UnchangedDisk, StepEnds DEF Killed

LEMMA PrepareKeeps ==
  ASSUME Inv, NEW p \in Procs, Prepare(p) PROVE Inv'
<1>1. mine[p] \in Locals /\ Placed("prepare", mine[p]) /\ mine[p].id \in Ids
  BY Located DEF Inv, Prepare
<1>2. Placed("collect", mine[p])
  BY <1>1 DEF Placed
<1>3. workspace' \in [Ids -> Procs \cup {None}] /\ report' \in [Ids -> Reports]
  BY DEF Inv, DiskOK, Prepare
<1>4. Beside /\ Grows /\ \A i \in Ids : Closed(report'[i].made)
  BY UnchangedIsBeside DEF Prepare, Inv, FilesOK
<1>5. pc'[p] = "collect" /\ (Ready(p)' /\ Judged(p)' /\ Decided(p)' => Inv')
  BY <1>1, <1>2, <1>3, <1>4, StepGoesOn
     DEF Prepare, Goto, PCs, AfterRun, Reported, Unfinished
<1> QED BY <1>5 DEF Ready, Judged, Decided, Reported, AfterRun

LEMMA LoadedIs ==
  ASSUME NEW kind, NEW b \in Behaviours PROVE Loaded(kind, b) \in Results
<1>1. b \in Results
  BY BehavioursAssumption
<1> DEFINE gold == IF kind = "replay" THEN NoCases ELSE b.gold
           cases == DOMAIN b.replay \cap (IF kind = "shadow" THEN Pilot ELSE Corpus)
           replay == [c \in cases |-> b.replay[c]]
<1>2. /\ gold \in UNION {[S -> GoldOutcomes] : S \in SUBSET Golds}
      /\ \A c \in Negative \cap DOMAIN gold : gold[c].rank = 0
  <2>1. NoCases \in UNION {[S -> GoldOutcomes] : S \in SUBSET Golds} /\ DOMAIN NoCases = {}
    <3>1. NoCases \in [{} -> GoldOutcomes] /\ DOMAIN NoCases = {}
      BY DEF NoCases
    <3> QED BY <3>1
  <2> QED BY <1>1, <2>1 DEF Results
<1>3. replay \in UNION {[S -> ReplayOutcomes] : S \in SUBSET Replays}
  <2>1. cases \in SUBSET Replays /\ \A c \in cases : b.replay[c] \in ReplayOutcomes
    BY <1>1, ResultsAre
  <2>2. replay \in [cases -> ReplayOutcomes]
    BY <2>1
  <2> QED BY <2>1, <2>2
<1>4. Loaded(kind, b) = [gold |-> gold, replay |-> replay]
  BY DEF Loaded
<1> HIDE DEF gold, replay
<1> QED BY <1>2, <1>3, <1>4 DEF Results

LEMMA CollectKeeps ==
  ASSUME Inv, NEW p \in Procs, Collect(p) PROVE Inv'
<1>1. mine[p] \in Locals /\ Placed("collect", mine[p]) /\ mine[p].id \in Ids
  BY Located DEF Inv, Collect
<1>2. PICK m : /\ Step(p, "run", m)
               /\ \/ m = mine[p]
                  \/ \E b \in Behaviours :
                       m = [mine[p] EXCEPT !.results = Loaded(mine[p].kind, b)]
  BY DEF Collect, Goto
<1>3. m \in Locals /\ m.kind = mine[p].kind /\ m.id = mine[p].id /\ Placed("run", m)
  <2>1. CASE m = mine[p]
    BY <1>1, <2>1 DEF Placed
  <2>2. CASE \E b \in Behaviours :
               m = [mine[p] EXCEPT !.results = Loaded(mine[p].kind, b)]
    <3>1. PICK b \in Behaviours :
            m = [mine[p] EXCEPT !.results = Loaded(mine[p].kind, b)]
      BY <2>2
    <3>2. Loaded(mine[p].kind, b) \in Results
      BY LoadedIs
    <3>3. /\ m \in Locals /\ m.kind = mine[p].kind /\ m.id = mine[p].id
          /\ m.against = mine[p].against
      BY <1>1, <3>1, <3>2 DEF Locals
    <3>4. m # Idle
      BY <1>1, <3>3, IdleIs, IdsAssumption
    <3> QED BY <1>1, <3>2, <3>3, <3>4 DEF Placed
  <2> QED BY <1>2, <2>1, <2>2
<1> DEFINE i == mine[p].id
<1>4. report' = [report EXCEPT ![i].made = @ \cup {"dir"}]
  BY DEF Collect
<1>5. report[i] \in Reports /\ Closed(report[i].made) /\ report \in [Ids -> Reports]
  BY <1>1 DEF Inv, DiskOK, FilesOK
<1>6. /\ report'[i] = [report[i] EXCEPT !.made = @ \cup {"dir"}]
      /\ \A j \in Ids : j # i => report'[j] = report[j]
  BY <1>1, <1>4, <1>5
<1>7. /\ report'[i] \in Reports /\ report'[i].made = report[i].made \cup {"dir"}
      /\ Same(report'[i], report[i], RunFiles)
  BY <1>5, <1>6 DEF Reports, Same, RunFiles, Files
<1>8. report' \in [Ids -> Reports]
  BY <1>1, <1>4, <1>5, <1>6, <1>7
<1>9. SameFiles(report'[i], report[i]) /\ Closed(report'[i].made)
  BY <1>5, <1>7 DEF SameFiles, RunFiles, Closed
<1>10. Beside /\ Grows /\ \A j \in Ids : Closed(report'[j].made)
  BY <1>6, <1>7, <1>9 DEF Beside, SameFiles, Same, Grows, Inv, FilesOK
<1>11. /\ pc'[p] = "run" /\ mine'[p] = m
       /\ Ready(p)' /\ Judged(p)' /\ Decided(p)' => Inv'
  BY <1>2, <1>3, <1>8, <1>10, StepGoesOn
     DEF Collect, Inv, DiskOK, PCs, AfterRun, Reported, Unfinished
<1>12. Ready(p)'
  BY <1>3, <1>7, <1>11 DEF Ready, My, Reported, AfterRun
<1> QED BY <1>11, <1>12 DEF Judged, Decided, Reported

LEMMA ReplayLineKeeps ==
  ASSUME Inv, NEW p \in Procs, ReplayLine(p) PROVE Inv'
<1>1. mine[p] \in Locals /\ Placed("line", mine[p]) /\ mine[p].id \in Ids
  BY Located DEF Inv, ReplayLine
<1>2. CASE mine[p].kind = "release"
  <2>1. Placed("release_line", mine[p])
    BY <1>1, <1>2 DEF Placed
  <2>2. /\ pc'[p] = "release_line" /\ mine'[p] = mine[p]
        /\ Ready(p)' /\ Judged(p)' /\ Decided(p)' => Inv'
    BY <1>1, <1>2, <2>1, UnchangedDisk, StepGoesOn
       DEF ReplayLine, Goto, PCs, AfterRun, Reported, Unfinished
  <2>3. /\ Ready(p) /\ Decided(p) /\ pc[p] = "line" /\ report' = report
        /\ author' = author
    BY DEF Inv, FilesOK, ReplayLine, disk, histories
  <2>4. Ready(p)'
    BY <1>1, <1>2, <2>2, <2>3 DEF Ready, Reported, Stored, My, AfterRun, Unfinished
  <2>5. Judged(p)' /\ Decided(p)'
    BY <1>2, <2>2, <2>3 DEF Judged, Decided, Reported, Earned, LineOf
  <2> QED BY <2>2, <2>4, <2>5
<1>3. CASE mine[p].kind # "release"
  <2>1. Finish(p) /\ Spoil({}) /\ started' = started
    BY <1>3 DEF ReplayLine, histories, Spoil, Inv, CountsOK
  <2> QED BY <1>3, <2>1, UnchangedDisk, StepEnds DEF ReplayLine, Unfinished
<1> QED BY <1>2, <1>3

LEMMA WriteComparisonKeeps ==
  ASSUME Inv, NEW p \in Procs, WriteComparison(p) PROVE Inv'
<1>1. mine[p] \in Locals /\ Placed("comparison", mine[p]) /\ mine[p].id \in Ids
  BY Located DEF Inv, WriteComparison
<1>2. My(p) \in Reports /\ Ready(p)
  BY <1>1 DEF Inv, DiskOK, FilesOK, My
<1>3. Filed(My(p), "comparison", mine[p].comparison) \in Reports
  BY <1>1, <1>2, FiledComparison DEF Placed, Locals
<1>4. /\ report' \in [Ids -> Reports] /\ Beside /\ Grows
      /\ \A i \in Ids : Closed(report'[i].made)
      /\ "comparison" \in report'[mine[p].id].made
  BY <1>1, <1>2, <1>3, OtherFileIsBeside DEF Ready, WriteComparison
<1>5. workspace' \in [Ids -> Procs \cup {None}]
  BY DEF Inv, DiskOK, WriteComparison
<1>6. CASE mine[p].kind = "release"
  <2>1. Placed("report", mine[p])
    BY <1>1, <1>6 DEF Placed
  <2>2. /\ pc'[p] = "report" /\ mine'[p] = mine[p]
        /\ Ready(p)' /\ Judged(p)' /\ Decided(p)' => Inv'
    BY <1>1, <1>4, <1>5, <1>6, <2>1, StepGoesOn
       DEF WriteComparison, Goto, PCs, AfterRun, Reported, Unfinished
  <2>3. Judged(p) /\ pc[p] = "comparison" /\ author' = author
    BY DEF Inv, WriteComparison, histories
  <2>4. Ready(p)'
    BY <1>1, <1>2, <1>4, <1>6, <2>2, <2>3
       DEF Ready, Reported, Stored, My, AfterRun, Unfinished, Grows, Runs, AllKinds
  <2>5. Judged(p)' /\ Decided(p)'
    BY <1>6, <2>2, <2>3 DEF Judged, Decided, Reported
  <2> QED BY <2>2, <2>4, <2>5
<1>7. CASE mine[p].kind # "release"
  <2>1. Finish(p) /\ Spoil({}) /\ started' = started
    BY <1>7 DEF WriteComparison, histories, Spoil, Inv, CountsOK
  <2> QED BY <1>4, <1>5, <1>7, <2>1, StepEnds DEF WriteComparison, Unfinished
<1> QED BY <1>6, <1>7

LEMMA WriteSummaryKeeps ==
  ASSUME Inv, NEW p \in Procs, WriteSummary(p) PROVE Inv'
<1>1. mine[p] \in Locals /\ Placed("summary", mine[p]) /\ mine[p].id \in Ids
  BY Located DEF Inv, WriteSummary
<1>2. My(p) \in Reports /\ My(p).run \in Results /\ mine[p].results \in Results
  BY <1>1 DEF Inv, DiskOK, My, Reports, Locals
<1>3. \A r \in Results : Critical(r) \in SUBSET Replays
  BY ResultsAre DEF Critical
<1>4. /\ report' \in [Ids -> Reports] /\ Beside /\ Grows
      /\ \A i \in Ids : Closed(report'[i].made)
  <2>1. CASE report' = report
    BY <2>1, UnchangedIsBeside DEF Inv, DiskOK, FilesOK
  <2>2. ASSUME NEW c \in SUBSET Replays, PutFile(p, "summary", c)
        PROVE  /\ report' \in [Ids -> Reports] /\ Beside /\ Grows
               /\ \A i \in Ids : Closed(report'[i].made)
    <3>1. Filed(My(p), "summary", c) \in Reports
      BY <1>2, FiledSummary
    <3> QED BY <1>1, <2>2, <3>1, OtherFileIsBeside
  <2>3. CASE PutFile(p, "summary", Critical(mine[p].results))
    BY <1>2, <1>3, <2>2, <2>3
  <2>4. CASE PutFile(p, "summary", Critical(My(p).run))
    BY <1>2, <1>3, <2>2, <2>4
  <2> QED BY <2>1, <2>3, <2>4 DEF WriteSummary
<1>5. Finish(p) /\ Spoil({}) /\ started' = started
  BY DEF WriteSummary, histories, Spoil, Inv, CountsOK
<1>6. mine[p].kind # "release" /\ workspace' \in [Ids -> Procs \cup {None}]
  BY <1>1 DEF Placed, WriteSummary, Inv, DiskOK
<1> QED BY <1>4, <1>5, <1>6, StepEnds DEF WriteSummary, Unfinished

-----------------------------------------------------------------------------
(* The comparison with the baseline.                                       *)

(* No case that is lost, and no smaller corpus, is left out.               *)
LEMMA LostIsRegressed ==
  ASSUME NEW base \in Results, NEW cand \in Results, NEW old, NEW new
  PROVE  Lost(base, cand) \cup Fewer(base, cand)
           \subseteq Compared(base, cand, old, new).regressed
<1> DEFINE regressed ==
      RegressedMetrics(RetrievalMetrics(base), RetrievalMetrics(cand))
      \cup RegressedMetrics(WorkflowMetrics(base), WorkflowMetrics(cand))
      \cup RegressedCases(base, cand)
<1>1. Compared(base, cand, old, new).regressed = regressed
  BY DEF Compared
<1>2. Lost(base, cand) = RegressedCases(base, cand)
  BY DEF Lost, RegressedCases, Accepted, Found, Ok, Hit
<1>3. ASSUME NEW S, IsFiniteSet(S) PROVE Cardinality(S) \in Nat
  BY <1>3, FS_CardinalityType
<1>4. \A r \in Results : /\ Cardinality(DOMAIN r.gold) \in Nat
                         /\ Cardinality(DOMAIN r.replay) \in Nat
  <2> SUFFICES ASSUME NEW r \in Results
               PROVE  /\ Cardinality(DOMAIN r.gold) \in Nat
                      /\ Cardinality(DOMAIN r.replay) \in Nat
    OBVIOUS
  <2>1. /\ DOMAIN r.gold \in SUBSET (Positive \cup Negative \cup Replays)
        /\ DOMAIN r.replay \in SUBSET (Positive \cup Negative \cup Replays)
    BY ResultsAre DEF Golds
  <2> QED BY <1>3, <2>1, FS_Subset, CasesAssumption
<1>5. ASSUME NEW m \in Nat, NEW n \in Nat, n < m
      PROVE  Worse("cases_total", [n |-> m, d |-> 1], [n |-> n, d |-> 1])
  BY <1>5 DEF Worse, LowerIsBetter, Less
<1>6. /\ "cases_total" \in DOMAIN RetrievalMetrics(base)
      /\ RetrievalMetrics(base).cases_total = [n |-> Cardinality(DOMAIN base.gold), d |-> 1]
      /\ RetrievalMetrics(cand).cases_total = [n |-> Cardinality(DOMAIN cand.gold), d |-> 1]
  BY DEF RetrievalMetrics
<1>7. /\ "cases_total" \in DOMAIN WorkflowMetrics(base)
      /\ WorkflowMetrics(base).cases_total =
           [n |-> Cardinality(DOMAIN base.replay), d |-> 1]
      /\ WorkflowMetrics(cand).cases_total =
           [n |-> Cardinality(DOMAIN cand.replay), d |-> 1]
  BY DEF WorkflowMetrics
<1>8. Fewer(base, cand) \subseteq regressed
  <2>1. CASE Cardinality(DOMAIN cand.gold) < Cardinality(DOMAIN base.gold)
    <3>1. "cases_total" \in RegressedMetrics(RetrievalMetrics(base), RetrievalMetrics(cand))
      BY <1>4, <1>5, <1>6, <2>1 DEF RegressedMetrics
    <3> QED BY <3>1 DEF Fewer
  <2>2. CASE Cardinality(DOMAIN cand.replay) < Cardinality(DOMAIN base.replay)
    <3>1. "cases_total" \in RegressedMetrics(WorkflowMetrics(base), WorkflowMetrics(cand))
      BY <1>4, <1>5, <1>7, <2>2 DEF RegressedMetrics
    <3> QED BY <3>1 DEF Fewer
  <2> QED BY <2>1, <2>2 DEF Fewer
<1> HIDE DEF regressed
<1> QED BY <1>1, <1>2, <1>8 DEF regressed

LEMMA ComparedIs ==
  ASSUME NEW base \in Results, NEW cand \in Results,
         NEW old \in SUBSET Replays, NEW new \in SUBSET Replays
  PROVE  /\ Compared(base, cand, old, new) \in Comparisons
         /\ Compared(base, cand, old, new).kind = "made"
<1>1. RegressedMetrics(RetrievalMetrics(base), RetrievalMetrics(cand)) \subseteq Metrics
  BY DEF RegressedMetrics, RetrievalMetrics, Metrics
<1>2. RegressedMetrics(WorkflowMetrics(base), WorkflowMetrics(cand)) \subseteq Metrics
  BY DEF RegressedMetrics, WorkflowMetrics, Metrics
<1>3. RegressedCases(base, cand) \subseteq Positive \cup Replays
  BY ResultsAre DEF RegressedCases
<1> DEFINE regressed ==
      RegressedMetrics(RetrievalMetrics(base), RetrievalMetrics(cand))
      \cup RegressedMetrics(WorkflowMetrics(base), WorkflowMetrics(cand))
      \cup RegressedCases(base, cand)
<1>4. regressed \in SUBSET (Metrics \cup Positive \cup Replays)
  BY <1>1, <1>2, <1>3
<1>5. Compared(base, cand, old, new) =
        [kind |-> "made", regressed |-> regressed, critical |-> new \ old,
         status |-> IF regressed = {} /\ new \ old = {} THEN "ok" ELSE "regression"]
  BY DEF Compared
<1> HIDE DEF regressed
<1> QED BY <1>4, <1>5 DEF Comparisons

(* The run under way of an id that it has for itself.                      *)
LEMMA OwnFacts ==
  ASSUME Inv, NEW p \in Procs, NEW i \in Ids, On(p, i), author[i] # None
  PROVE  /\ \A q \in Procs \ {p} : ~On(q, i)
         /\ pc[p] \in AfterRun =>
              /\ author[i] = mine[p].kind /\ report[i].run = mine[p].results
              /\ pc[p] = "replay" => report[i].details = mine[p].results
              /\ Reported(p) => report[i].release = mine[p].status
              /\ pc[p] \notin Unfinished => Whole(report[i])
<1>1. Lone(i) /\ Owned(i) /\ Between(i)
  BY DEF Inv, Authored
<1>2. \A q \in Procs \ {p} : ~On(q, i)
  BY <1>1 DEF Lone
<1> QED BY <1>1, <1>2 DEF Owned, Between

(* What Compare does when it has a comparison, or may do without one.      *)
LEMMA CompareGoesOn ==
  ASSUME Inv, NEW p \in Procs, Compare(p), ~Finish(p)
  PROVE  \E b \in Ids \cup {None}, m \in Locals :
           LET found == Stored(b) /\ Stored(mine[p].id) IN
           /\ Step(p, AfterCompare(found), m) /\ author' = author
           /\ m.kind = mine[p].kind /\ m.id = mine[p].id /\ m.results = mine[p].results
           /\ found => /\ m.against = b /\ m.base = report[b].run
                       /\ m.comparison = Compared(report[b].run, My(p).run,
                                                  report[b].summary, My(p).summary)
                       /\ m.comparison.kind = "made"
           /\ ~found => /\ mine[p].kind = "release" /\ m.against = None
                        /\ m.comparison.kind # "made"
<1>1. mine[p] \in Locals /\ mine[p].id \in Ids
  BY Located DEF Inv, Compare
<1> DEFINE Both(b) == Stored(b) /\ Stored(mine[p].id)
           Made(b) == Compared(report[b].run, My(p).run,
                               report[b].summary, My(p).summary)
           Of(b) == IF Both(b) THEN Made(b)
                    ELSE IF b # None \/ Profile.requireBaseline THEN BaselineMissing
                    ELSE NoComparison
           Base(b) == IF Both(b) THEN report[b].run ELSE NoResults
<1>2. PICK b \in Ids \cup {None} :
        /\ Both(b) \/ mine[p].kind = "release"
        /\ author' = author
        /\ Step(p, AfterCompare(Both(b)),
                [mine[p] EXCEPT !.against = IF Both(b) THEN b ELSE None,
                                !.base = Base(b), !.comparison = Of(b)])
  <2>1. (IF mine[p].kind = "compare" THEN {mine[p].against} ELSE Ids \cup {None})
          \subseteq Ids \cup {None}
    BY <1>1 DEF Locals
  <2> QED BY <2>1 DEF Compare
<1> DEFINE found == Both(b)
           against == IF found THEN b ELSE None
           base == Base(b)
           comparison == Of(b)
           m == [mine[p] EXCEPT !.against = against, !.base = base,
                                !.comparison = comparison]
<1>3. found => Made(b) \in Comparisons /\ Made(b).kind = "made" /\ report[b].run \in Results
  <2> SUFFICES ASSUME found
               PROVE  /\ Made(b) \in Comparisons /\ Made(b).kind = "made"
                      /\ report[b].run \in Results
    OBVIOUS
  <2>1. /\ report[b].run \in Results /\ My(p).run \in Results
        /\ report[b].summary \in SUBSET Replays /\ My(p).summary \in SUBSET Replays
    BY <1>1 DEF Inv, DiskOK, Reports, My, Stored
  <2> QED BY <2>1, ComparedIs
<1>4. /\ against \in Ids \cup {None} /\ base \in Results /\ comparison \in Comparisons
      /\ found => against = b /\ base = report[b].run /\ comparison = Made(b)
      /\ found => comparison.kind = "made"
      /\ ~found => against = None /\ comparison.kind # "made"
  BY <1>3, NoComparisonIs, NoResultsAre DEF None
<1>5. Step(p, AfterCompare(found), m) /\ (~found => mine[p].kind = "release")
  BY <1>2
<1>6. author' = author
  BY <1>2
<1> HIDE DEF against, base, comparison
<1>7. /\ m \in Locals /\ m.kind = mine[p].kind /\ m.id = mine[p].id
      /\ m.results = mine[p].results /\ m.against = against /\ m.base = base
      /\ m.comparison = comparison
  BY <1>1, <1>4 DEF Locals
<1> HIDE DEF m
<1> QED BY <1>4, <1>5, <1>6, <1>7

LEMMA CompareKeeps ==
  ASSUME Inv, NEW p \in Procs, Compare(p) PROVE Inv'
<1>1. /\ mine[p] \in Locals /\ Placed("compare", mine[p]) /\ mine[p].id \in Ids
      /\ pc[p] = "compare" /\ UNCHANGED disk /\ started' = started
  BY Located DEF Inv, Compare
<1>2. mine[p].kind \in {"release", "nightly", "compare"}
  BY <1>1 DEF Placed
<1>3. CASE Finish(p)
  <2>1. pc'[p] = "idle"
    BY <1>3 DEF Finish, Step, Inv, ProcsOK
  <2>2. ~\E found, m : Step(p, AfterCompare(found), m)
    BY <2>1 DEF AfterCompare, Step, Inv, ProcsOK
  <2>3. Spoil(IF mine[p].kind = "release" THEN {mine[p].id} ELSE {})
    BY <2>2 DEF Compare
  <2> QED BY <1>1, <1>3, <2>3, UnchangedDisk, StepEnds DEF Unfinished
<1>4. CASE ~Finish(p)
  <2>1. PICK b \in Ids \cup {None}, m \in Locals :
          LET found == Stored(b) /\ Stored(mine[p].id) IN
          /\ Step(p, AfterCompare(found), m) /\ author' = author
          /\ m.kind = mine[p].kind /\ m.id = mine[p].id /\ m.results = mine[p].results
          /\ found => /\ m.against = b /\ m.base = report[b].run
                      /\ m.comparison = Compared(report[b].run, My(p).run,
                                                 report[b].summary, My(p).summary)
                      /\ m.comparison.kind = "made"
          /\ ~found => /\ mine[p].kind = "release" /\ m.against = None
                       /\ m.comparison.kind # "made"
    BY <1>4, CompareGoesOn
  <2> DEFINE found == Stored(b) /\ Stored(mine[p].id)
             label == AfterCompare(found)
  <2>2. /\ label = IF found THEN "comparison" ELSE "report"
        /\ found => b \in Ids /\ b # None
    BY IdsAssumption DEF AfterCompare, Stored
  <2>3. m # Idle
    BY <1>1, <2>1, IdleIs, IdsAssumption
  <2>4. Placed(label, m)
    <3>1. m.kind = "compare" => found
      BY <1>2, <2>1
    <3> QED BY <1>1, <1>2, <2>1, <2>2, <2>3, <3>1 DEF Placed, AllKinds
  <2>5. /\ pc'[p] = label /\ mine'[p] = m
        /\ Ready(p)' /\ Judged(p)' /\ Decided(p)' => Inv'
    <3>1. Step(p, label, m) /\ UNCHANGED histories
      BY <1>1, <2>1 DEF histories
    <3>2. label \in PCs /\ label \notin Unfinished /\ pc[p] \notin Unfinished
      BY <1>1, <2>2 DEF PCs, Unfinished
    <3>3. label \in AfterRun /\ pc[p] \in AfterRun /\ label \notin {"line", "release_line"}
      BY <1>1, <2>2 DEF AfterRun
    <3>4. m.kind = mine[p].kind /\ m.id = mine[p].id /\ m.results = mine[p].results
      BY <2>1
    <3> HIDE DEF label
    <3> QED BY <1>1, <2>4, <3>1, <3>2, <3>3, <3>4, UnchangedDisk, StepGoesOn
  <2>6. Ready(p)'
    <3>1. Ready(p) /\ report' = report
      BY <1>1 DEF Inv, FilesOK, disk
    <3> QED BY <1>1, <2>1, <2>2, <2>5, <3>1
            DEF Ready, Reported, Stored, My, AfterRun, Unfinished
  <2>7. Judged(p)'
    <3>1. ASSUME mine[p].kind = "release", found, author[mine[p].id] # None
          PROVE  Lost(m.base, m.results) \cup Fewer(m.base, m.results)
                   \subseteq m.comparison.regressed
      <4>1. On(p, mine[p].id) /\ pc[p] \in AfterRun
        BY <1>1, <3>1 DEF On, Runs, AllKinds, AfterRun
      <4>2. My(p).run = mine[p].results
        BY <1>1, <3>1, <4>1, OwnFacts DEF My
      <4>3. report[b].run \in Results /\ mine[p].results \in Results
        BY <1>1, <2>2, <3>1 DEF Inv, DiskOK, Reports, Locals
      <4> QED BY <2>1, <3>1, <4>2, <4>3, LostIsRegressed
    <3> HIDE DEF found
    <3> QED BY <2>1, <2>2, <2>5, <3>1 DEF Judged, found
  <2>8. Decided(p)'
    BY <2>2, <2>5 DEF Decided, Reported
  <2> QED BY <2>5, <2>6, <2>7, <2>8
<1> QED BY <1>3, <1>4

-----------------------------------------------------------------------------
(* Steps that change the files of a run.                                   *)

LEMMA OwnAuthored ==
  ASSUME NEW p \in Procs, Rest(p), NEW i \in Ids, On(p, i)', pc'[p] \in AfterRun,
         author'[i] # None =>
           /\ \A q \in Procs \ {p} : ~On(q, i)
           /\ author'[i] = mine'[p].kind /\ report'[i].run = mine'[p].results
           /\ pc'[p] = "replay" => report'[i].details = mine'[p].results
           /\ Reported(p)' => report'[i].release = mine'[p].status
           /\ pc'[p] \notin Unfinished => Whole(report'[i])
  PROVE  Authored(i)'
<1> SUFFICES ASSUME author'[i] # None
             PROVE  Lone(i)' /\ Owned(i)' /\ Between(i)' /\ Told(i)'
  BY DEF Authored
<1>1. \A q \in Procs : On(q, i)' => q = p
  BY DEF Rest, On
<1>2. Lone(i)' /\ Owned(i)'
  BY <1>1 DEF Lone, Owned
<1>3. Between(i)' /\ Told(i)'
  BY <1>1 DEF Between, Told, Whole
<1> QED BY <1>2, <1>3

(* The run p of i replaces one of its files and goes on at label.          *)
Writes(p, i, file, c, label, m) ==
  /\ file \in {"run", "details", "replay", "release"}
  /\ On(p, i) /\ PutFile(p, file, c) /\ Filed(My(p), file, c) \in Reports
  /\ Closed(My(p).made \cup {file})
  /\ label \in PCs /\ m \in Locals /\ Placed(label, m) /\ Step(p, label, m)
  /\ m.id = mine[p].id
  /\ workspace' = workspace /\ lines' = lines /\ started' = started
  /\ author' \in [Ids -> Runs \cup {None}]
  /\ \A j \in Ids : j # i => author'[j] = author[j]
  /\ author'[i] = author[i] \/ (author'[i] # None => ~Others(p, i))

Wrote(p, i, file, c, label, m) ==
  /\ pc'[p] = label /\ mine'[p] = m
  /\ report'[i].made = report[i].made \cup {file}
  /\ report'[i] = Filed(My(p), file, c)
  /\ Same(report'[i], report[i], Files \ {file})

LEMMA StepWrites ==
  ASSUME Inv, NEW p \in Procs, NEW i \in Ids, NEW file, NEW c, NEW label, NEW m,
         Writes(p, i, file, c, label, m)
  PROVE  /\ Wrote(p, i, file, c, label, m) /\ Rest(p)
         /\ Authored(i)' /\ Ready(p)' /\ Judged(p)' /\ Decided(p)' => Inv'
<1> USE DEF Writes
<1>1. ProcsOK' /\ pc'[p] = label /\ mine'[p] = m /\ Rest(p)
  BY StepMoves DEF Inv, Rest
<1>2. mine[p].id = i /\ My(p) = report[i] /\ report[i] \in Reports
  BY DEF On, My, Inv, DiskOK
<1>3. /\ report' \in [Ids -> Reports] /\ report'[i] = Filed(My(p), file, c)
      /\ \A j \in Ids : j # i => report'[j] = report[j]
  BY <1>2, PutFileIs DEF Inv
<1>4. /\ report'[i].made = report[i].made \cup {file}
      /\ Same(report'[i], report[i], Files \ {file})
  <2>1. file \in Files \ {"dir"}
    BY DEF Files
  <2>2. /\ Filed(report[i], file, c).made = report[i].made \cup {file}
        /\ Same(Filed(report[i], file, c), report[i], Files \ {file})
    BY <1>2, <2>1, FiledMade
  <2> QED BY <1>2, <1>3, <2>2
<1>5. DiskOK' /\ CountsOK'
  BY <1>3 DEF Inv, DiskOK, CountsOK
<1>6. Grows /\ \A j \in Ids : Closed(report'[j].made)
  BY <1>2, <1>3, <1>4 DEF Grows, Inv, FilesOK
<1>7. Uncured(p)
  <2> SUFFICES ASSUME NEW q \in Procs \ {p}, mine[q].kind = "release",
                      pc[q] \in AfterRun, author[mine[q].id] = None
               PROVE  author'[mine[q].id] = None
    BY DEF Uncured
  <2>1. mine[q].id \in Ids
    BY Located DEF Inv, AfterRun
  <2>2. mine[q].id = i => Others(p, i)
    BY DEF Others, On, Runs, AllKinds
  <2> QED BY <2>1, <2>2
<1>8. ASSUME NEW j \in Ids, j # i PROVE Authored(j)'
  <2>1. /\ Authored(j) /\ ~On(p, j) /\ ~On(p, j)' /\ report'[j] = report[j]
        /\ author'[j] = author[j] /\ lines'[j] = lines[j]
    BY <1>1, <1>2, <1>3, <1>8 DEF Inv, On
  <2> QED BY <1>1, <2>1, AuthoredElsewhere
<1>9. Authored(i)' => \A j \in Ids : Authored(j)'
  BY <1>8
<1> QED BY <1>1, <1>3, <1>4, <1>5, <1>6, <1>7, <1>9, StepIsLocal DEF Grows, Wrote

LEMMA Running ==
  ASSUME Inv, NEW p \in Procs, pc[p] \in {"run", "details", "replay"}
  PROVE  /\ mine[p] \in Locals /\ Placed(pc[p], mine[p]) /\ mine[p].id \in Ids
         /\ mine[p].kind \in Runs /\ mine[p].results \in Results
         /\ On(p, mine[p].id) /\ My(p) \in Reports /\ Closed(My(p).made) /\ Ready(p)
<1>1. /\ mine[p] \in Locals /\ Placed(pc[p], mine[p]) /\ mine[p].id \in Ids
  BY Located DEF Inv
<1>2. mine[p].kind \in Runs /\ mine[p].results \in Results
  BY <1>1 DEF Placed, Locals
<1> QED BY <1>1, <1>2 DEF On, My, Inv, DiskOK, FilesOK

LEMMA WriteRunKeeps ==
  ASSUME Inv, NEW p \in Procs, WriteRun(p) PROVE Inv'
<1>0. PICK i \in Ids : i = mine[p].id
  BY Running DEF WriteRun
<1>1. /\ mine[p] \in Locals /\ Placed("run", mine[p]) /\ i \in Ids
      /\ mine[p].kind \in Runs /\ mine[p].results \in Results
      /\ On(p, i) /\ My(p) \in Reports /\ Closed(My(p).made) /\ Ready(p) /\ pc[p] = "run"
  BY <1>0, Running DEF WriteRun
<1>2. /\ Filed(My(p), "run", mine[p].results) \in Reports
      /\ Filed(My(p), "run", mine[p].results).run = mine[p].results
  BY <1>1, FiledRun
<1>3. Placed("details", mine[p])
  BY <1>1 DEF Placed
<1>4. Closed(My(p).made \cup {"run"})
  BY <1>1 DEF Closed, Ready
<1>5. /\ author' \in [Ids -> Runs \cup {None}]
      /\ \A j \in Ids : j # i => author'[j] = author[j]
      /\ author'[i] = IF Others(p, i) THEN None ELSE mine[p].kind
  BY <1>0, <1>1 DEF WriteRun, Inv, CountsOK
<1>6. mine[p].kind # None
  BY <1>1 DEF Runs, AllKinds, None
<1>7. /\ pc'[p] = "details" /\ mine'[p] = mine[p] /\ Rest(p)
      /\ report'[i].made = report[i].made \cup {"run"}
      /\ report'[i] = Filed(My(p), "run", mine[p].results)
      /\ Authored(i)' /\ Ready(p)' /\ Judged(p)' /\ Decided(p)' => Inv'
  <2>1. /\ PutFile(p, "run", mine[p].results) /\ Step(p, "details", mine[p])
        /\ workspace' = workspace /\ lines' = lines /\ started' = started
        /\ "details" \in PCs
    BY DEF WriteRun, Goto, PCs
  <2>2. author'[i] = author[i] \/ (author'[i] # None => ~Others(p, i))
    BY <1>5
  <2>3. Writes(p, i, "run", mine[p].results, "details", mine[p])
    BY <1>0, <1>1, <1>2, <1>3, <1>4, <1>5, <2>1, <2>2 DEF Writes
  <2>4. /\ Wrote(p, i, "run", mine[p].results, "details", mine[p]) /\ Rest(p)
        /\ Authored(i)' /\ Ready(p)' /\ Judged(p)' /\ Decided(p)' => Inv'
    BY <1>0, <2>3, StepWrites
  <2> QED BY <2>4 DEF Wrote
<1>8. Authored(i)'
  <2>1. author'[i] # None => \A q \in Procs \ {p} : ~On(q, i)
    BY <1>5 DEF Others
  <2>2. On(p, i)' /\ ~Reported(p)' /\ pc'[p] \in AfterRun /\ pc'[p] \in Unfinished
    BY <1>0, <1>1, <1>7 DEF On, Reported, AfterRun, Unfinished
  <2> QED BY <1>1, <1>2, <1>5, <1>7, <2>1, <2>2, OwnAuthored
<1>9. Ready(p)' /\ Judged(p)' /\ Decided(p)'
  BY <1>0, <1>7 DEF Ready, Judged, Decided, Reported, My, AfterRun, Unfinished
<1> QED BY <1>7, <1>8, <1>9

LEMMA WriteDetailsKeeps ==
  ASSUME Inv, NEW p \in Procs, WriteDetails(p) PROVE Inv'
<1>0. PICK i \in Ids : i = mine[p].id
  BY Running DEF WriteDetails
<1>1. /\ mine[p] \in Locals /\ Placed("details", mine[p]) /\ i \in Ids
      /\ mine[p].kind \in Runs /\ mine[p].results \in Results
      /\ On(p, i) /\ My(p) \in Reports /\ Closed(My(p).made) /\ Ready(p)
      /\ pc[p] = "details"
  BY <1>0, Running DEF WriteDetails
<1>2. /\ Filed(My(p), "details", mine[p].results) \in Reports
      /\ Filed(My(p), "details", mine[p].results).details = mine[p].results
  BY <1>1, FiledDetails
<1>3. Placed("replay", mine[p])
  BY <1>1 DEF Placed
<1>4. Closed(My(p).made \cup {"details"})
  BY <1>1 DEF Closed, Ready
<1>5. author' = author /\ author \in [Ids -> Runs \cup {None}] /\ started' = started
  BY DEF WriteDetails, histories, Inv, CountsOK
<1>6. /\ pc'[p] = "replay" /\ mine'[p] = mine[p] /\ Rest(p)
      /\ report'[i].made = report[i].made \cup {"details"}
      /\ report'[i] = Filed(My(p), "details", mine[p].results)
      /\ Same(report'[i], report[i], Files \ {"details"})
      /\ Authored(i)' /\ Ready(p)' /\ Judged(p)' /\ Decided(p)' => Inv'
  <2>1. /\ PutFile(p, "details", mine[p].results) /\ Step(p, "replay", mine[p])
        /\ workspace' = workspace /\ lines' = lines /\ started' = started
        /\ "replay" \in PCs
    BY DEF WriteDetails, Goto, PCs, histories
  <2>2. author'[i] = author[i] \/ (author'[i] # None => ~Others(p, i))
    BY <1>5
  <2>3. Writes(p, i, "details", mine[p].results, "replay", mine[p])
    BY <1>0, <1>1, <1>2, <1>3, <1>4, <1>5, <2>1, <2>2 DEF Writes
  <2>4. /\ Wrote(p, i, "details", mine[p].results, "replay", mine[p]) /\ Rest(p)
        /\ Authored(i)' /\ Ready(p)' /\ Judged(p)' /\ Decided(p)' => Inv'
    BY <1>0, <2>3, StepWrites
  <2> QED BY <2>4 DEF Wrote
<1>7. Authored(i)'
  <2>1. author[i] # None => /\ \A q \in Procs \ {p} : ~On(q, i)
                            /\ author[i] = mine[p].kind /\ report[i].run = mine[p].results
    BY <1>1, OwnFacts DEF AfterRun
  <2>2. On(p, i)' /\ ~Reported(p)' /\ pc'[p] \in AfterRun /\ pc'[p] \in Unfinished
    BY <1>0, <1>1, <1>6 DEF On, Reported, AfterRun, Unfinished
  <2>3. report'[i].run = report[i].run
    BY <1>6 DEF Same, Files
  <2> QED BY <1>1, <1>2, <1>5, <1>6, <2>1, <2>2, <2>3, OwnAuthored
<1>8. Ready(p)' /\ Judged(p)' /\ Decided(p)'
  BY <1>0, <1>6 DEF Ready, Judged, Decided, Reported, My, AfterRun, Unfinished
<1> QED BY <1>6, <1>7, <1>8

LEMMA WriteReplayKeeps ==
  ASSUME Inv, NEW p \in Procs, WriteReplay(p) PROVE Inv'
<1>0. PICK i \in Ids : i = mine[p].id
  BY Running DEF WriteReplay
<1>1. /\ mine[p] \in Locals /\ Placed("replay", mine[p]) /\ i \in Ids
      /\ mine[p].kind \in Runs /\ mine[p].results \in Results
      /\ On(p, i) /\ My(p) \in Reports /\ Closed(My(p).made) /\ Ready(p)
      /\ pc[p] = "replay"
  BY <1>0, Running DEF WriteReplay
<1>2. /\ Filed(My(p), "replay", mine[p].results.replay) \in Reports
      /\ Filed(My(p), "replay", mine[p].results.replay).replay = mine[p].results.replay
  BY <1>1, FiledReplay
<1>3. PICK label \in {"line", "compare", "summary"} :
        /\ Goto(p, label)
        /\ label = "line" <=> mine[p].kind \in {"eval", "replay"}
        /\ label = "compare" <=> mine[p].kind \in {"release", "nightly"}
        /\ label = "summary" <=> mine[p].kind = "shadow"
  BY <1>1 DEF WriteReplay, Runs, AllKinds
<1>4. Placed(label, mine[p])
  BY <1>1, <1>3 DEF Placed
<1>5. Closed(My(p).made \cup {"replay"}) /\ "details" \in My(p).made
  BY <1>1 DEF Closed, Ready
<1>6. author' = author /\ author \in [Ids -> Runs \cup {None}] /\ started' = started
  BY DEF WriteReplay, histories, Inv, CountsOK
<1>7. /\ pc'[p] = label /\ mine'[p] = mine[p] /\ Rest(p)
      /\ report'[i].made = report[i].made \cup {"replay"}
      /\ report'[i] = Filed(My(p), "replay", mine[p].results.replay)
      /\ Same(report'[i], report[i], Files \ {"replay"})
      /\ Authored(i)' /\ Ready(p)' /\ Judged(p)' /\ Decided(p)' => Inv'
  <2>1. /\ PutFile(p, "replay", mine[p].results.replay) /\ Step(p, label, mine[p])
        /\ workspace' = workspace /\ lines' = lines /\ started' = started
        /\ label \in PCs
    BY <1>3 DEF WriteReplay, Goto, PCs, histories
  <2>2. author'[i] = author[i] \/ (author'[i] # None => ~Others(p, i))
    BY <1>6
  <2>3. Writes(p, i, "replay", mine[p].results.replay, label, mine[p])
    BY <1>0, <1>1, <1>2, <1>4, <1>5, <1>6, <2>1, <2>2 DEF Writes
  <2>4. /\ Wrote(p, i, "replay", mine[p].results.replay, label, mine[p]) /\ Rest(p)
        /\ Authored(i)' /\ Ready(p)' /\ Judged(p)' /\ Decided(p)' => Inv'
    BY <1>0, <2>3, StepWrites
  <2> QED BY <2>4 DEF Wrote
<1>8. Authored(i)'
  <2>1. author[i] # None => /\ \A q \in Procs \ {p} : ~On(q, i)
                            /\ author[i] = mine[p].kind /\ report[i].run = mine[p].results
                            /\ report[i].details = mine[p].results
    BY <1>1, OwnFacts DEF AfterRun
  <2>2. On(p, i)' /\ ~Reported(p)' /\ pc'[p] \in AfterRun /\ pc'[p] # "replay"
    BY <1>0, <1>1, <1>3, <1>7 DEF On, Reported, AfterRun
  <2>3. report'[i].run = report[i].run /\ report'[i].details = report[i].details
    BY <1>7 DEF Same, Files
  <2>4. author[i] # None => Whole(report'[i])
    BY <1>2, <1>5, <1>0, <1>7, <2>1, <2>3 DEF Whole, My
  <2> QED BY <1>1, <1>6, <1>7, <2>1, <2>2, <2>3, <2>4, OwnAuthored
<1>9. Ready(p)' /\ Judged(p)' /\ Decided(p)'
  BY <1>0, <1>3, <1>7 DEF Ready, Judged, Decided, Reported, My, AfterRun, Unfinished
<1> QED BY <1>7, <1>8, <1>9

-----------------------------------------------------------------------------
(* The decision of a release check and the line that tells it.             *)

LEMMA ThreeAreFinite ==
  ASSUME NEW a, NEW b, NEW c PROVE IsFiniteSet({a, b, c})
<1>1. IsFiniteSet({a})
  BY FS_Singleton
<1>2. IsFiniteSet({a} \cup {b})
  BY <1>1, FS_AddElement
<1>3. IsFiniteSet(({a} \cup {b}) \cup {c})
  BY <1>2, FS_AddElement
<1>4. {a, b, c} = ({a} \cup {b}) \cup {c}
  OBVIOUS
<1> QED BY <1>3, <1>4

LEMMA RegressedFinite ==
  ASSUME NEW c \in Comparisons PROVE IsFiniteSet(c.regressed)
<1>1. c.regressed \in SUBSET (Metrics \cup (Positive \cup Replays))
  BY DEF Comparisons
<1>2. IsFiniteSet(Metrics)
  <2> DEFINE first == {"cases_total", "hit_at_1", "hit_at_3"}
             second == {"hit_at_5", "mrr", "wrong_version_rate"}
             third == {"false_positive_rate", "abstain_precision",
                       "design_acceptance_rate"}
             fourth == {"review_rejection_rate", "validation_failure_rate",
                        "writeback_promotion_rate"}
  <2>1. Metrics = (first \cup second) \cup (third \cup fourth)
    BY DEF Metrics
  <2>2. /\ IsFiniteSet(first) /\ IsFiniteSet(second)
        /\ IsFiniteSet(third) /\ IsFiniteSet(fourth)
    BY ThreeAreFinite
  <2> HIDE DEF first, second, third, fourth
  <2>3. IsFiniteSet(first \cup second) /\ IsFiniteSet(third \cup fourth)
    BY <2>2, FS_Union
  <2> QED BY <2>1, <2>2, <2>3, FS_Union
<1>3. IsFiniteSet(Positive \cup Replays)
  <2>1. Positive \cup Replays \in SUBSET (Positive \cup Negative \cup Replays)
    OBVIOUS
  <2> QED BY <2>1, FS_Subset, CasesAssumption
<1>4. IsFiniteSet(Metrics \cup (Positive \cup Replays))
  BY <1>2, <1>3, FS_Union
<1> QED BY <1>1, <1>4, FS_Subset

LEMMA OkMeans ==
  ASSUME NEW r \in Results, NEW c \in Comparisons, NEW drift, Overall(r, drift, c) = "ok"
  PROVE  /\ ReplayOk(r)
         /\ Cardinality(DOMAIN r.gold) >= Profile.minGold
         /\ Cardinality(DOMAIN r.replay) >= Profile.minReplay
         /\ Profile.requireBaseline => c.kind = "made"
         /\ c.kind = "made" => Cardinality(c.regressed) <= Profile.maxRegressed
<1>1. /\ ReplayOk(r) /\ EvalFailures(r) = {} /\ ComparisonFailures(c) = {}
      /\ Profile.requireBaseline => c.kind = "made"
  BY DEF Overall
<1>2. Cardinality(DOMAIN r.gold) \in Nat /\ Cardinality(DOMAIN r.replay) \in Nat
  <2>1. /\ DOMAIN r.gold \in SUBSET (Positive \cup Negative \cup Replays)
        /\ DOMAIN r.replay \in SUBSET (Positive \cup Negative \cup Replays)
    BY ResultsAre DEF Golds
  <2> QED BY <2>1, FS_Subset, FS_CardinalityType, CasesAssumption
<1>3. /\ ~(Cardinality(DOMAIN r.gold) < Profile.minGold)
      /\ ~(Cardinality(DOMAIN r.replay) < Profile.minReplay)
  <2>1. \A k \in {"gold", "replay"} :
          ~(IF k = "gold" THEN Cardinality(DOMAIN r.gold) < Profile.minGold
                          ELSE Cardinality(DOMAIN r.replay) < Profile.minReplay)
    BY <1>1 DEF EvalFailures
  <2> QED BY <2>1
<1>4. c.kind = "made" => Cardinality(c.regressed) <= Profile.maxRegressed
  <2> SUFFICES ASSUME c.kind = "made"
               PROVE  Cardinality(c.regressed) <= Profile.maxRegressed
    OBVIOUS
  <2>1. ~(Cardinality(c.regressed) > Profile.maxRegressed)
    BY <1>1 DEF ComparisonFailures
  <2>2. Cardinality(c.regressed) \in Nat
    BY RegressedFinite, FS_CardinalityType
  <2> QED BY <2>1, <2>2, ProfileAssumption
<1> QED BY <1>1, <1>2, <1>3, <1>4, ProfileAssumption

(* What a release check needs to know of its baseline to earn its "ok".    *)
LEMMA OkIsJust ==
  ASSUME NEW line, line.results \in Results, NEW c \in Comparisons, NEW drift,
         Overall(line.results, drift, c) = "ok",
         c.kind = "made" <=> line.against # None,
         line.against # None /\ line.alone =>
           Lost(line.base, line.results) \cup Fewer(line.base, line.results)
             \subseteq c.regressed
  PROVE  Earned(line)
<1> DEFINE r == line.results
<1>1. r \in Results /\ Overall(r, drift, c) = "ok"
  OBVIOUS
<1> HIDE DEF r
<1>2. /\ ReplayOk(r)
      /\ Cardinality(DOMAIN r.gold) >= Profile.minGold
      /\ Cardinality(DOMAIN r.replay) >= Profile.minReplay
      /\ Profile.requireBaseline => c.kind = "made"
      /\ c.kind = "made" => Cardinality(c.regressed) <= Profile.maxRegressed
  BY <1>1, OkMeans
<1>3. \A k \in DOMAIN r.replay : Accepted(r, k)
  BY <1>2 DEF ReplayOk, Ok, Accepted
<1> DEFINE lost == Lost(line.base, r) \cup Fewer(line.base, r)
<1>4. ASSUME line.against # None, line.alone
      PROVE  Cardinality(lost) <= Profile.maxRegressed
  <2>1. lost \in SUBSET c.regressed
    BY <1>4 DEF r
  <2> HIDE DEF lost
  <2>2. IsFiniteSet(c.regressed)
    BY RegressedFinite
  <2>3. IsFiniteSet(lost) /\ Cardinality(lost) <= Cardinality(c.regressed)
    BY <2>1, <2>2, FS_Subset
  <2>4. Cardinality(lost) \in Nat /\ Cardinality(c.regressed) \in Nat
    BY <2>2, <2>3, FS_CardinalityType
  <2>5. Cardinality(c.regressed) <= Profile.maxRegressed
    BY <1>2, <1>4
  <2> QED BY <2>3, <2>4, <2>5, ProfileAssumption
<1> QED BY <1>2, <1>3, <1>4 DEF Earned, r

LEMMA ReportKeeps ==
  ASSUME Inv, NEW p \in Procs, Report(p) PROVE Inv'
<1>0. PICK i \in Ids : i = mine[p].id
  BY Located DEF Inv, Report
<1>1. /\ mine[p] \in Locals /\ Placed("report", mine[p]) /\ mine[p].kind = "release"
      /\ mine[p].results \in Results /\ mine[p].comparison \in Comparisons
      /\ On(p, i) /\ My(p) \in Reports /\ Closed(My(p).made) /\ Ready(p) /\ Judged(p)
      /\ pc[p] = "report"
  <2>1. /\ mine[p] \in Locals /\ Placed("report", mine[p])
        /\ Ready(p) /\ Judged(p) /\ pc[p] = "report"
    BY Located DEF Inv, FilesOK, Report
  <2>2. /\ mine[p].kind = "release" /\ mine[p].results \in Results
        /\ mine[p].comparison \in Comparisons
    BY <2>1 DEF Placed, Locals
  <2> QED BY <1>0, <2>1, <2>2 DEF On, Runs, AllKinds, My, Inv, DiskOK, FilesOK
<1>2. PICK drift, status :
        /\ status = Overall(mine[p].results, drift, mine[p].comparison)
        /\ PutFile(p, "release", status)
        /\ Step(p, "line", [mine[p] EXCEPT !.status = status])
  BY DEF Report, Statuses
<1>3. status \in Decisions
  BY <1>2, OverallIs DEF Decisions
<1> DEFINE n == [mine[p] EXCEPT !.status = status]
<1>4. /\ n \in Locals /\ n.kind = mine[p].kind /\ n.id = mine[p].id
      /\ n.results = mine[p].results /\ n.against = mine[p].against
      /\ n.base = mine[p].base /\ n.status = status
  BY <1>1, <1>3 DEF Locals
<1>5. PICK m \in Locals : m = n
  BY <1>4
<1>6. /\ m.kind = "release" /\ m.id = i
      /\ m.results = mine[p].results /\ m.against = mine[p].against
      /\ m.base = mine[p].base /\ m.status = status /\ Step(p, "line", m)
  BY <1>0, <1>1, <1>2, <1>4, <1>5
<1> HIDE DEF n
<1>7. Placed("line", m)
  <2>1. m # Idle
    BY <1>0, <1>6, IdleIs, IdsAssumption
  <2> QED BY <1>0, <1>6, <2>1 DEF Placed, Runs, AllKinds
<1>8. /\ Filed(My(p), "release", status) \in Reports
      /\ Filed(My(p), "release", status).release = status
  BY <1>1, <1>3, FiledRelease
<1>9. Closed(My(p).made \cup {"release"}) /\ "replay" \in My(p).made
  BY <1>1 DEF Closed, Ready, AfterRun, Unfinished, Runs, AllKinds
<1>10. /\ author' = author /\ author \in [Ids -> Runs \cup {None}] /\ started' = started
       /\ workspace' = workspace /\ lines' = lines
  BY DEF Report, histories, Inv, CountsOK
<1>11. /\ pc'[p] = "line" /\ mine'[p] = m /\ Rest(p)
       /\ report'[i].made = report[i].made \cup {"release"}
       /\ report'[i] = Filed(My(p), "release", status)
       /\ Same(report'[i], report[i], Files \ {"release"})
       /\ Authored(i)' /\ Ready(p)' /\ Judged(p)' /\ Decided(p)' => Inv'
  <2>1. Writes(p, i, "release", status, "line", m)
    <3>1. "line" \in PCs /\ m.id = mine[p].id
      BY <1>0, <1>6 DEF PCs
    <3> QED BY <1>0, <1>1, <1>2, <1>5, <1>6, <1>7, <1>8, <1>9, <1>10, <3>1 DEF Writes
  <2>2. /\ Wrote(p, i, "release", status, "line", m) /\ Rest(p)
        /\ Authored(i)' /\ Ready(p)' /\ Judged(p)' /\ Decided(p)' => Inv'
    BY <1>0, <2>1, StepWrites
  <2> QED BY <2>2 DEF Wrote
<1>12. Authored(i)'
  <2>1. author[i] # None => /\ \A q \in Procs \ {p} : ~On(q, i)
                            /\ author[i] = mine[p].kind /\ report[i].run = mine[p].results
                            /\ Whole(report[i])
    BY <1>0, <1>1, OwnFacts DEF AfterRun, Unfinished
  <2>2. On(p, i)' /\ pc'[p] \in AfterRun /\ pc'[p] # "replay"
    BY <1>6, <1>11 DEF On, AfterRun, Runs, AllKinds
  <2>3. /\ report'[i].run = report[i].run /\ report'[i].details = report[i].details
        /\ report'[i].replay = report[i].replay
        /\ Whole(report[i]) => Whole(report'[i])
    BY <1>11 DEF Same, Files, Whole
  <2>4. /\ report'[i].release = mine'[p].status /\ mine'[p].results = mine[p].results
        /\ mine'[p].kind = mine[p].kind
    BY <1>1, <1>6, <1>8, <1>11
  <2> QED BY <1>0, <1>10, <1>11, <2>1, <2>2, <2>3, <2>4, OwnAuthored
<1>13. Ready(p)'
  <2>1. /\ mine[p].against # None =>
             "comparison" \in report[i].made /\ Stored(mine[p].against)
    BY <1>0, <1>1 DEF Ready, My
  <2>2. Stored(mine[p].against) => Stored(m.against)'
    <3>1. /\ mine[p].against \in Ids /\ "run" \in report[mine[p].against].made =>
               "run" \in report'[mine[p].against].made
      <4>1. \A j \in Ids : j # i => report'[j] = report[j]
        BY <1>0, <1>2, <1>8, PutFileIs DEF Inv
      <4> QED BY <1>11, <4>1
    <3> QED BY <1>6, <3>1 DEF Stored
  <2>3. mine'[p] = m /\ My(p)' = report'[i]
    BY <1>6, <1>11 DEF My
  <2> QED BY <1>0, <1>6, <1>9, <1>11, <2>1, <2>2, <2>3
          DEF Ready, Reported, AfterRun, Unfinished, My, Stored
<1>14. Judged(p)'
  BY <1>11 DEF Judged
<1>15. Decided(p)'
  <2> SUFFICES ASSUME status = "ok" PROVE Earned(LineOf(p)')
    BY <1>6, <1>11 DEF Decided, Earned, LineOf
  <2> DEFINE line == LineOf(p)'
  <2>1. /\ line.results = mine[p].results /\ line.against = mine[p].against
        /\ line.base = mine[p].base /\ line.alone = (author[mine[p].id] # None)
    BY <1>0, <1>6, <1>10, <1>11 DEF LineOf
  <2> HIDE DEF line
  <2>2. Earned(line)
    BY <1>1, <1>2, <2>1, OkIsJust DEF Judged
  <2> QED BY <2>2 DEF line
<1> QED BY <1>11, <1>12, <1>13, <1>14, <1>15

LEMMA ReleaseLineKeeps ==
  ASSUME Inv, NEW p \in Procs, ReleaseLine(p) PROVE Inv'
<1>0. PICK i \in Ids : i = mine[p].id
  BY Located DEF Inv, ReleaseLine
<1>1. /\ mine[p] \in Locals /\ mine[p].kind = "release" /\ On(p, i) /\ Reported(p)
      /\ Ready(p) /\ Decided(p) /\ pc[p] = "release_line"
  BY <1>0, Located DEF Inv, FilesOK, ReleaseLine, Placed, Reported, On, Runs, AllKinds
<1>2. PICK line \in Lines : line = LineOf(p)
  <2> DEFINE alone == author[mine[p].id] # None
  <2>1. alone \in BOOLEAN
    OBVIOUS
  <2>2. /\ mine[p].status \in Decisions /\ mine[p].results \in Results
        /\ mine[p].against \in Ids \cup {None} /\ mine[p].base \in Results
    BY <1>1 DEF Locals
  <2>3. LineOf(p) = [status |-> mine[p].status, results |-> mine[p].results,
                     against |-> mine[p].against, base |-> mine[p].base,
                     alone |-> alone]
    BY DEF LineOf
  <2> HIDE DEF alone
  <2>4. LineOf(p) \in Lines
    BY <2>1, <2>2, <2>3 DEF Lines
  <2> QED BY <2>4
<1>3. /\ line.status = mine[p].status /\ line.results = mine[p].results
      /\ line.against = mine[p].against
  BY <1>2 DEF LineOf
<1>4. /\ report' = report /\ started' = started /\ author' = author
      /\ workspace' = workspace /\ Finish(p)
      /\ lines' = [lines EXCEPT ![i] = Append(lines[i], line)]
  BY <1>0, <1>2 DEF ReleaseLine, histories, LineOf
<1>5. /\ lines' \in [Ids -> Seq(Lines)]
      /\ \A j \in Ids : j # i => lines'[j] = lines[j]
      /\ lines'[i] # <<>> /\ lines'[i][Len(lines'[i])] = line
      /\ \A n \in 1..Len(lines'[i]) : \/ n \in 1..Len(lines[i]) /\ lines'[i][n] = lines[i][n]
                                      \/ lines'[i][n] = line
  <2>1. lines[i] \in Seq(Lines) /\ lines \in [Ids -> Seq(Lines)]
    BY <1>0 DEF Inv, DiskOK
  <2>2. lines'[i] = Append(lines[i], line) /\ Len(lines[i]) \in Nat
    BY <1>0, <1>4, <2>1
  <2>3. /\ lines'[i] \in Seq(Lines) /\ lines'[i] # <<>>
        /\ Len(lines'[i]) = Len(lines[i]) + 1
        /\ lines'[i][Len(lines'[i])] = line
        /\ \A n \in 1..Len(lines[i]) : lines'[i][n] = lines[i][n]
    BY <1>2, <2>1, <2>2
  <2>4. \A n \in 1..Len(lines'[i]) : n \in 1..Len(lines[i]) \/ n = Len(lines'[i])
    BY <2>2, <2>3
  <2> QED BY <1>0, <1>4, <2>1, <2>3, <2>4
<1>6. ProcsOK' /\ pc'[p] = "idle" /\ mine'[p] = Idle /\ Rest(p)
  BY <1>4, StepMoves, IdleIs DEF Inv, Rest, Finish, PCs
<1>7. DiskOK' /\ CountsOK' /\ Grows
  BY <1>4, <1>5 DEF Inv, DiskOK, CountsOK, Grows
<1>8. \A j \in Ids : ~On(p, j)'
  BY <1>6, IdleIs DEF On, Runs, AllKinds, None
<1>9. ASSUME NEW j \in Ids PROVE Authored(j)'
  <2>1. CASE j # i
    <3>1. ~On(p, j)
      BY <1>1, <2>1 DEF On
    <3>2. Authored(j) /\ report'[j] = report[j] /\ author'[j] = author[j]
          /\ lines'[j] = lines[j]
      BY <1>4, <1>5, <2>1 DEF Inv
    <3> QED BY <1>6, <1>8, <3>1, <3>2, AuthoredElsewhere
  <2>2. CASE j = i
    <3> SUFFICES ASSUME author[i] # None
                 PROVE  Lone(i)' /\ Owned(i)' /\ Between(i)' /\ Told(i)'
      BY <1>4, <2>2 DEF Authored
    <3>1. /\ \A q \in Procs \ {p} : ~On(q, i)
          /\ report[i].run = mine[p].results /\ report[i].release = mine[p].status
          /\ Whole(report[i])
      BY <1>0, <1>1, OwnFacts DEF AfterRun, Unfinished
    <3>2. \A q \in Procs : ~On(q, i)'
      BY <1>6, <1>8, <3>1, <1>0 DEF Rest, On
    <3>3. Lone(i)' /\ Owned(i)'
      BY <3>2 DEF Lone, Owned
    <3>4. Between(i)'
      BY <1>4, <3>1 DEF Between, Whole
    <3>5. Told(i)'
      BY <1>3, <1>4, <1>5, <3>1 DEF Told
    <3> QED BY <3>3, <3>4, <3>5
  <2> QED BY <2>1, <2>2
<1>10. \A q \in Procs : Ready(q)' /\ Judged(q)' /\ Decided(q)'
  <2>1. ASSUME NEW q \in Procs, q # p PROVE Ready(q)' /\ Judged(q)' /\ Decided(q)'
    <3>1. /\ pc'[q] = pc[q] /\ mine'[q] = mine[q] /\ ProcsOK
          /\ Ready(q) /\ Judged(q) /\ Decided(q)
      BY <1>6, <2>1 DEF Rest, Inv, FilesOK
    <3> QED BY <1>4, <1>7, <3>1, ReadyKept, JudgementKept
  <2>2. Ready(p)' /\ Judged(p)' /\ Decided(p)'
    BY <1>6 DEF Ready, Judged, Decided, Reported, AfterRun
  <2> QED BY <2>1, <2>2
<1>11. Backed(i, line)
  BY <1>0, <1>1, <1>3 DEF Ready, Backed, My
<1>12. FilesOK'
  <2>1. \A j \in Ids : Closed(report'[j].made)
    BY <1>4 DEF Inv, FilesOK
  <2>2. \A j \in Ids : \A n \in 1..Len(lines'[j]) : Backed(j, lines'[j][n])
    BY <1>5, <1>11 DEF Inv, FilesOK
  <2>3. (\A j \in Ids : \A n \in 1..Len(lines[j]) : Backed(j, lines[j][n]))'
    BY <1>4, <2>2 DEF Backed, Stored
  <2> QED BY <1>10, <2>1, <2>3 DEF FilesOK
<1>13. Logged'
  <2>1. line.status = "ok" => Earned(line)
    BY <1>1, <1>2, <1>3 DEF Decided
  <2>2. \A j \in Ids : \A n \in 1..Len(lines'[j]) :
          lines'[j][n].status = "ok" => Earned(lines'[j][n])
    BY <1>5, <2>1 DEF Inv, Logged
  <2> QED BY <2>2 DEF Logged, Earned
<1> QED BY <1>6, <1>7, <1>9, <1>10, <1>12, <1>13 DEF Inv

-----------------------------------------------------------------------------
(* The starts and the failures.                                            *)

LEMMA StartRunKeeps ==
  ASSUME Inv, NEW p \in Procs, Start(p), StartRun(p) PROVE Inv'
<1>1. PICK kind \in Kinds \cap Runs, i \in Ids, code \in Behaviours :
        /\ Step(p, "prepare", [Idle EXCEPT !.kind = kind, !.id = i,
                                           !.results = Loaded(kind, code)])
        /\ Spoil(Shared(p, i))
  BY DEF StartRun
<1> DEFINE results == Loaded(kind, code)
           m == [Idle EXCEPT !.kind = kind, !.id = i, !.results = results]
<1>2. results \in Results
  BY LoadedIs
<1> HIDE DEF results
<1>3. /\ m \in Locals /\ m.kind = kind /\ m.id = i /\ m # Idle
  <2>1. kind \in AllKinds /\ kind \in Runs
    BY DEF Runs
  <2>2. m \in Locals /\ m.kind = kind /\ m.id = i
    BY <1>2, <2>1, IdleIs DEF Locals
  <2> QED BY <2>2, IdleIs, IdsAssumption
<1>4. Step(p, "prepare", m)
  BY <1>1 DEF results
<1> HIDE DEF m
<1>5. Placed("prepare", m)
  BY <1>3 DEF Placed, Runs
<1>6. /\ report' = report /\ lines' = lines /\ workspace' = workspace
      /\ pc[p] = "idle" /\ started' \in 0..MaxStarts
  BY BoundsAssumption DEF Start, disk, Inv, CountsOK
<1>7. /\ Others(p, i) => i \in Shared(p, i)
      /\ pc[p] \notin Unfinished
  BY <1>6 DEF Shared, Unfinished
<1> QED BY <1>1, <1>3, <1>4, <1>5, <1>6, <1>7, StepBegins

LEMMA StartScriptKeeps ==
  ASSUME Inv, NEW p \in Procs, Start(p), StartScript(p) PROVE Inv'
<1>1. PICK label \in {"compare", "summary"}, i \in Ids, b \in Ids \cup {None} :
        \/ /\ label = "compare" /\ b \in Ids
           /\ Step(p, label, [Idle EXCEPT !.kind = "compare", !.id = i, !.against = b])
        \/ /\ label = "summary"
           /\ Step(p, label, [Idle EXCEPT !.kind = "summarize", !.id = i])
  BY DEF StartScript
<1> DEFINE kind == IF label = "compare" THEN "compare" ELSE "summarize"
<1>2. PICK m \in Locals :
        /\ m.kind = kind /\ m.id = i /\ (label = "compare" => m.against \in Ids)
        /\ Step(p, label, m)
  <2>1. CASE label = "compare"
    <3> DEFINE m == [Idle EXCEPT !.kind = "compare", !.id = i, !.against = b]
    <3>1. m \in Locals /\ m.kind = "compare" /\ m.id = i /\ m.against = b
      BY <1>1, <2>1, IdleIs DEF Locals, AllKinds
    <3>2. b \in Ids /\ Step(p, label, m)
      BY <1>1, <2>1
    <3> QED BY <2>1, <3>1, <3>2
  <2>2. CASE label = "summary"
    <3> DEFINE m == [Idle EXCEPT !.kind = "summarize", !.id = i]
    <3>1. m \in Locals /\ m.kind = "summarize" /\ m.id = i
      BY IdleIs DEF Locals, AllKinds
    <3>2. Step(p, label, m)
      BY <1>1, <2>2
    <3> QED BY <2>2, <3>1, <3>2
  <2> QED BY <2>1, <2>2
<1>3. /\ kind \notin Runs /\ kind \in AllKinds /\ kind # "release"
      /\ label \in PCs /\ label \notin Unfinished
      /\ label # "comparison" /\ label # "report" /\ label # "run"
  BY DEF Runs, AllKinds, PCs, Unfinished
<1>4. Placed(label, m)
  <2>1. m # Idle
    BY <1>2, IdleIs, IdsAssumption
  <2> QED BY <1>2, <1>3, <2>1 DEF Placed
<1>5. ProcsOK' /\ pc'[p] = label /\ mine'[p] = m /\ Rest(p)
  BY <1>2, <1>3, <1>4, StepMoves DEF Inv, Rest
<1>6. /\ UNCHANGED disk /\ author' = author
      /\ pc[p] = "idle" /\ started' \in 0..MaxStarts
  <2>1. /\ UNCHANGED disk /\ pc[p] = "idle"
        /\ started < MaxStarts /\ started' = started + 1
    BY DEF Start
  <2>2. author' = author
    BY DEF StartScript
  <2>3. started \in 0..MaxStarts
    BY DEF Inv, CountsOK
  <2> QED BY <2>1, <2>2, <2>3, BoundsAssumption
<1>7. /\ Beside /\ Grows /\ lines' = lines /\ DiskOK' /\ CountsOK' /\ Uncured(p)
      /\ \A j \in Ids : Closed(report'[j].made)
  BY <1>6, UnchangedDisk DEF Inv, DiskOK, CountsOK, Uncured
<1>8. \A j \in Ids : Authored(j)'
  <2> SUFFICES ASSUME NEW j \in Ids PROVE Authored(j)'
    OBVIOUS
  <2>1. Authored(j) /\ author'[j] = author[j]
    BY <1>6 DEF Inv
  <2>2. ~On(p, j)' /\ ~On(p, j)
    <3>1. mine[p] = Idle
      BY <1>6 DEF Inv, ProcsOK, Placed
    <3> QED BY <1>2, <1>3, <1>5, <3>1, IdleIs DEF On, Runs, AllKinds, None
  <2> QED BY <1>5, <1>7, <2>1, <2>2, AuthoredKept
<1>9. Ready(p)' /\ Judged(p)' /\ Decided(p)'
  BY <1>2, <1>3, <1>5 DEF Ready, Judged, Decided, Reported, AfterRun, Unfinished
<1> QED BY <1>5, <1>7, <1>8, <1>9, StepIsLocal

LEMMA FailsKeeps ==
  ASSUME Inv, NEW p \in Procs, Fails(p) PROVE Inv'
<1> DEFINE torn == IF pc[p] \in Unfinished THEN {mine[p].id} ELSE {}
<1>1. /\ mine[p] \in Locals /\ Placed(pc[p], mine[p]) /\ mine[p].kind \in Runs
      /\ pc[p] \in {"collect", "run"} \cup Unfinished
      /\ UNCHANGED disk /\ started' = started
  BY Located DEF Inv, Fails, Placed, Unfinished
<1>2. pc[p] \in Unfinished => mine[p].id \in torn
  OBVIOUS
<1>3. CASE ~(mine[p].kind = "nightly" /\ ~mine[p].retried)
  <2>1. Finish(p) /\ Spoil(torn)
    BY <1>3 DEF Fails
  <2>2. mine[p].kind = "release" /\ pc[p] \in AfterRun => mine[p].id \in torn
    BY <1>1 DEF AfterRun
  <2> HIDE DEF torn
  <2> QED BY <1>1, <1>2, <2>1, <2>2, UnchangedDisk, StepEnds
<1>4. CASE mine[p].kind = "nightly" /\ ~mine[p].retried
  <2>1. PICK i \in Ids :
          /\ Spoil(torn \cup Shared(p, i))
          /\ Step(p, "prepare", [mine[p] EXCEPT !.id = i, !.retried = TRUE])
    BY <1>4 DEF Fails
  <2> DEFINE n == [mine[p] EXCEPT !.id = i, !.retried = TRUE]
             S == torn \cup Shared(p, i)
  <2>2. n \in Locals /\ n.kind = "nightly" /\ n.id = i
    BY <1>1, <1>4 DEF Locals
  <2>3. PICK m \in Locals : m = n
    BY <2>2
  <2>4. Step(p, "prepare", m) /\ m.kind = "nightly" /\ m.id = i
    BY <2>1, <2>2, <2>3
  <2> HIDE DEF n
  <2>5. Placed("prepare", m)
    <3>1. m # Idle
      BY <2>4, IdleIs, IdsAssumption
    <3> QED BY <2>4, <3>1 DEF Placed, Runs, AllKinds
  <2>6. /\ Others(p, i) => i \in S
        /\ pc[p] \in Unfinished => mine[p].id \in S
        /\ Spoil(S)
    BY <1>2, <2>1 DEF Shared
  <2>7. /\ report' = report /\ lines' = lines /\ workspace' = workspace
        /\ started' \in 0..MaxStarts
    BY <1>1 DEF disk, Inv, CountsOK
  <2> HIDE DEF S
  <2> QED BY <1>1, <2>4, <2>5, <2>6, <2>7, StepBegins
<1> QED BY <1>3, <1>4

-----------------------------------------------------------------------------
(* The metrics of an improvement.                                          *)

LEMMA ProductsOrdered ==
  ASSUME NEW a \in Nat, NEW b \in Nat, NEW d \in Nat, a <= b
  PROVE  a * d <= b * d
<1>1. b = a + (b - a) /\ b - a \in Nat
  OBVIOUS
<1>2. \A k \in Nat : (a + k) * d = a * d + k * d /\ k * d \in Nat
  OBVIOUS
<1>3. a * d \in Nat
  OBVIOUS
<1> QED BY <1>1, <1>2, <1>3

(* Of the same whole a larger part is no less.                             *)
LEMMA NotLess ==
  ASSUME NEW a \in Nat, NEW b \in Nat, NEW d \in Nat, b <= a
  PROVE  ~Less([n |-> a, d |-> d], [n |-> b, d |-> d])
<1>1. b * d <= a * d /\ a * d \in Nat /\ b * d \in Nat
  BY ProductsOrdered
<1> QED BY <1>1 DEF Less

(* A part that grows next to a rest that shrinks is no less of the whole.  *)
LEMMA NotLessOfWhole ==
  ASSUME NEW a \in Nat, NEW b \in Nat, NEW s \in Nat, NEW t \in Nat, b <= a, s <= t
  PROVE  ~Less([n |-> a, d |-> a + s], [n |-> b, d |-> b + t])
<1>1. b * (a + s) <= a * (b + t)
  <2>1. b * s <= a * s
    BY ProductsOrdered
  <2>2. s * a <= t * a
    BY ProductsOrdered
  <2>3. /\ b * (a + s) = a * b + b * s /\ a * (b + t) = a * b + t * a
        /\ a * s = s * a /\ a * b \in Nat /\ b * s \in Nat /\ a * s \in Nat /\ t * a \in Nat
    OBVIOUS
  <2> QED BY <2>1, <2>2, <2>3
<1>2. a * (b + t) \in Nat /\ b * (a + s) \in Nat
  OBVIOUS
<1> QED BY <1>1, <1>2 DEF Less

LEMMA GoldsFinite ==
  ASSUME NEW S \in SUBSET Golds PROVE IsFiniteSet(S) /\ Cardinality(S) \in Nat
<1>1. S \in SUBSET (Positive \cup Negative \cup Replays)
  BY DEF Golds
<1> QED BY <1>1, FS_Subset, FS_CardinalityType, CasesAssumption

(* The cases of a set are those of negative queries and the others.        *)
LEMMA Halves ==
  ASSUME NEW S \in SUBSET Golds
  PROVE  Cardinality(S) = Cardinality(S \cap Negative) + Cardinality(S \ Negative)
<1> DEFINE A == S \cap Negative
           B == S \ Negative
<1>1. A \in SUBSET Golds /\ B \in SUBSET Golds /\ A \cup B = S /\ A \cap B = {}
  OBVIOUS
<1> HIDE DEF A, B
<1>2. /\ IsFiniteSet(A) /\ IsFiniteSet(B)
      /\ Cardinality(A) \in Nat /\ Cardinality(B) \in Nat
  BY <1>1, GoldsFinite
<1>3. Cardinality(A \cup B) = Cardinality(A) + Cardinality(B) - Cardinality(A \cap B)
  BY <1>2, FS_Union
<1>4. Cardinality(A \cap B) = 0
  BY <1>1, FS_EmptySet
<1>5. Cardinality(A \cup B) = Cardinality(A) + Cardinality(B)
  BY <1>2, <1>3, <1>4
<1>6. Cardinality(S) = Cardinality(A) + Cardinality(B)
  BY <1>1, <1>5
<1> QED BY <1>6 DEF A, B

(* The answers of a candidate that improves on a baseline.                 *)
LEMMA NoAnswerWorse ==
  ASSUME NEW base \in Results, NEW cand \in Results, Improves(base, cand)
  PROVE  /\ DOMAIN cand.gold = DOMAIN base.gold /\ DOMAIN base.gold \subseteq Golds
         /\ \A k \in 1..MaxHits : Within(base, k) \subseteq Within(cand, k)
         /\ \A k \in 1..MaxHits : Within(base, k) \in SUBSET Golds
                                  /\ Within(cand, k) \in SUBSET Golds
         /\ Strays(cand) \subseteq Strays(base)
         /\ Abstained(base) \in SUBSET DOMAIN base.gold
         /\ Abstained(cand) \in SUBSET DOMAIN base.gold
         /\ Abstained(base) \cap Negative \subseteq Abstained(cand)
         /\ Abstained(cand) \ Negative \subseteq Abstained(base)
<1>1. /\ DOMAIN cand.gold = DOMAIN base.gold /\ DOMAIN base.gold \subseteq Golds
      /\ \A c \in DOMAIN base.gold : NoWorse(c, base.gold[c], cand.gold[c])
      /\ \A c \in DOMAIN base.gold :
           base.gold[c] \in GoldOutcomes /\ cand.gold[c] \in GoldOutcomes
      /\ \A c \in DOMAIN base.gold \cap Negative :
           base.gold[c].rank = 0 /\ cand.gold[c].rank = 0
  BY ResultsAre DEF Improves
<1>2. ASSUME NEW k \in 1..MaxHits, NEW c \in Within(base, k) PROVE c \in Within(cand, k)
  <2>1. c \in DOMAIN base.gold /\ base.gold[c].rank \in 1..k
    BY DEF Within
  <2>2. c \notin Negative
    BY <1>1, <2>1
  <2>3. NoLater(base.gold[c], cand.gold[c])
    BY <1>1, <2>1, <2>2 DEF NoWorse
  <2>4. cand.gold[c].rank \in 0..MaxHits
    BY <1>1, <2>1 DEF GoldOutcomes
  <2>5. cand.gold[c].rank \in 1..k
    BY <2>1, <2>3, <2>4 DEF NoLater, MaxHits
  <2> QED BY <1>1, <2>1, <2>5 DEF Within
<1>3. Strays(cand) \subseteq Strays(base)
  BY <1>1 DEF Strays, NoWorse
<1>4. Abstained(base) \cap Negative \subseteq Abstained(cand)
  BY <1>1 DEF Abstained, NoWorse
<1>5. ASSUME NEW c \in Abstained(cand) \ Negative PROVE c \in Abstained(base)
  <2>1. /\ c \in DOMAIN base.gold /\ ~cand.gold[c].hits
        /\ NoLater(base.gold[c], cand.gold[c])
    BY <1>1 DEF Abstained, NoWorse
  <2>2. cand.gold[c].rank \in 0..MaxHits /\ ~(cand.gold[c].rank > 0)
    BY <1>1, <2>1 DEF GoldOutcomes
  <2>3. base.gold[c].hits = cand.gold[c].hits
    BY <2>1, <2>2 DEF NoLater
  <2> QED BY <2>1, <2>3 DEF Abstained
<1>6. \A k \in 1..MaxHits : Within(base, k) \in SUBSET Golds
                            /\ Within(cand, k) \in SUBSET Golds
  BY <1>1 DEF Within
<1>7. Abstained(base) \in SUBSET DOMAIN base.gold /\ Abstained(cand) \in SUBSET DOMAIN base.gold
  BY <1>1 DEF Abstained
<1> QED BY <1>1, <1>2, <1>3, <1>4, <1>5, <1>6, <1>7

LEMMA GoldsOrdered ==
  ASSUME NEW S \in SUBSET Golds, NEW T \in SUBSET S
  PROVE  Cardinality(S) \in Nat /\ Cardinality(T) \in Nat /\ Cardinality(T) <= Cardinality(S)
<1>1. IsFiniteSet(S) /\ Cardinality(S) \in Nat /\ T \in SUBSET Golds
  BY GoldsFinite
<1> QED BY <1>1, GoldsFinite, FS_Subset

LEMMA RanksOrdered ==
  ASSUME NEW base \in Results, NEW cand \in Results, Improves(base, cand)
  PROVE  /\ ReciprocalRanks(base) \in Nat /\ ReciprocalRanks(cand) \in Nat
         /\ ReciprocalRanks(base) <= ReciprocalRanks(cand)
<1> DEFINE old(k) == Cardinality(Within(base, k))
           new(k) == Cardinality(Within(cand, k))
<1>1. \A k \in 1..10 : old(k) \in Nat /\ new(k) \in Nat /\ old(k) <= new(k)
  BY NoAnswerWorse, GoldsOrdered DEF MaxHits
<1>2. /\ ReciprocalRanks(base) =
           1260 * old(1) + 420 * old(2) + 210 * old(3) + 126 * old(4) + 84 * old(5)
           + 60 * old(6) + 45 * old(7) + 35 * old(8) + 28 * old(9) + 252 * old(10)
      /\ ReciprocalRanks(cand) =
           1260 * new(1) + 420 * new(2) + 210 * new(3) + 126 * new(4) + 84 * new(5)
           + 60 * new(6) + 45 * new(7) + 35 * new(8) + 28 * new(9) + 252 * new(10)
  BY DEF ReciprocalRanks
<1> HIDE DEF old, new
<1> QED BY <1>1, <1>2

LEMMA NoRetrievalMetricWorse ==
  ASSUME NEW base \in Results, NEW cand \in Results, Improves(base, cand)
  PROVE  RegressedMetrics(RetrievalMetrics(base), RetrievalMetrics(cand)) = {}
<1> DEFINE total == DOMAIN base.gold
           size == Cardinality(total)
<1>1. DOMAIN cand.gold = total /\ total \subseteq Golds
  BY NoAnswerWorse
<1>2. size \in Nat
  BY <1>1, GoldsFinite
<1> HIDE DEF total, size
<1>3. ~Worse("cases_total", [n |-> size, d |-> 1], [n |-> size, d |-> 1])
  BY <1>2, NotLess DEF Worse, LowerIsBetter
<1>4. ASSUME NEW k \in {1, 3, 5}, NEW metric \in {"hit_at_1", "hit_at_3", "hit_at_5"}
      PROVE  ~Worse(metric, Share(Within(base, k), total), Share(Within(cand, k), total))
  <2>1. /\ Cardinality(Within(base, k)) \in Nat /\ Cardinality(Within(cand, k)) \in Nat
        /\ Cardinality(Within(base, k)) <= Cardinality(Within(cand, k))
    BY NoAnswerWorse, GoldsOrdered DEF MaxHits
  <2> QED BY <1>2, <2>1, NotLess DEF Worse, LowerIsBetter, Share, size
<1>5. ~Worse("mrr", [n |-> ReciprocalRanks(base), d |-> 2520 * size],
                    [n |-> ReciprocalRanks(cand), d |-> 2520 * size])
  <2>1. 2520 * size \in Nat
    BY <1>2
  <2> QED BY <2>1, RanksOrdered, NotLess DEF Worse, LowerIsBetter
<1>6. ~Worse("wrong_version_rate", Share(Strays(base), total \cap Versioned),
                                   Share(Strays(cand), total \cap Versioned))
  <2>1. Strays(base) \in SUBSET Golds /\ Strays(cand) \in SUBSET Strays(base)
        /\ total \cap Versioned \in SUBSET Golds
    BY <1>1, NoAnswerWorse DEF Strays, total
  <2>2. Cardinality(total \cap Versioned) \in Nat
    BY <2>1, GoldsFinite
  <2> QED BY <2>1, <2>2, GoldsOrdered, NotLess DEF Worse, LowerIsBetter, Share
<1>7. ~Worse("false_positive_rate",
             Share((total \cap Negative) \ Abstained(base), total \cap Negative),
             Share((total \cap Negative) \ Abstained(cand), total \cap Negative))
  <2> DEFINE old == (total \cap Negative) \ Abstained(base)
             new == (total \cap Negative) \ Abstained(cand)
  <2>1. old \in SUBSET Golds /\ new \in SUBSET old /\ total \cap Negative \in SUBSET Golds
    BY <1>1, NoAnswerWorse
  <2> HIDE DEF old, new
  <2>2. Cardinality(total \cap Negative) \in Nat
    BY <2>1, GoldsFinite
  <2>3. ~Worse("false_positive_rate", Share(old, total \cap Negative),
                                      Share(new, total \cap Negative))
    BY <2>1, <2>2, GoldsOrdered, NotLess DEF Worse, LowerIsBetter, Share
  <2> QED BY <2>3 DEF old, new
<1>8. ~Worse("abstain_precision",
             Share(Abstained(base) \cap Negative, Abstained(base)),
             Share(Abstained(cand) \cap Negative, Abstained(cand)))
  <2> DEFINE old == Abstained(base)
             new == Abstained(cand)
  <2>1. /\ old \in SUBSET Golds /\ new \in SUBSET Golds
        /\ old \cap Negative \subseteq new /\ new \ Negative \subseteq old
    BY <1>1, NoAnswerWorse DEF total
  <2> HIDE DEF old, new
  <2> DEFINE a == Cardinality(new \cap Negative)
             b == Cardinality(old \cap Negative)
             s == Cardinality(new \ Negative)
             t == Cardinality(old \ Negative)
  <2>2. a \in Nat /\ b \in Nat /\ b <= a
    <3>1. new \cap Negative \in SUBSET Golds
          /\ old \cap Negative \in SUBSET (new \cap Negative)
      BY <2>1
    <3> QED BY <3>1, GoldsOrdered
  <2>3. s \in Nat /\ t \in Nat /\ s <= t
    <3>1. old \ Negative \in SUBSET Golds
          /\ new \ Negative \in SUBSET (old \ Negative)
      BY <2>1
    <3> QED BY <3>1, GoldsOrdered
  <2>4. Cardinality(new) = a + s /\ Cardinality(old) = b + t
    BY <2>1, Halves
  <2> HIDE DEF a, b, s, t
  <2>5. ~Less([n |-> a, d |-> a + s], [n |-> b, d |-> b + t])
    BY <2>2, <2>3, NotLessOfWhole
  <2>6. ~Less(Share(new \cap Negative, new), Share(old \cap Negative, old))
    BY <2>4, <2>5 DEF Share, a, b
  <2> QED BY <2>6 DEF Worse, LowerIsBetter, old, new
<1> DEFINE old == RetrievalMetrics(base)
           new == RetrievalMetrics(cand)
<1>9. /\ DOMAIN old = {"cases_total", "hit_at_1", "hit_at_3", "hit_at_5", "mrr",
                       "wrong_version_rate", "false_positive_rate", "abstain_precision"}
      /\ old.cases_total = [n |-> size, d |-> 1] /\ new.cases_total = [n |-> size, d |-> 1]
      /\ old.hit_at_1 = Share(Within(base, 1), total)
      /\ new.hit_at_1 = Share(Within(cand, 1), total)
      /\ old.hit_at_3 = Share(Within(base, 3), total)
      /\ new.hit_at_3 = Share(Within(cand, 3), total)
      /\ old.hit_at_5 = Share(Within(base, 5), total)
      /\ new.hit_at_5 = Share(Within(cand, 5), total)
      /\ old.mrr = [n |-> ReciprocalRanks(base), d |-> 2520 * size]
      /\ new.mrr = [n |-> ReciprocalRanks(cand), d |-> 2520 * size]
      /\ old.wrong_version_rate = Share(Strays(base), total \cap Versioned)
      /\ new.wrong_version_rate = Share(Strays(cand), total \cap Versioned)
      /\ old.false_positive_rate =
           Share((total \cap Negative) \ Abstained(base), total \cap Negative)
      /\ new.false_positive_rate =
           Share((total \cap Negative) \ Abstained(cand), total \cap Negative)
      /\ old.abstain_precision = Share(Abstained(base) \cap Negative, Abstained(base))
      /\ new.abstain_precision = Share(Abstained(cand) \cap Negative, Abstained(cand))
  BY <1>1 DEF RetrievalMetrics, total, size
<1> HIDE DEF old, new
<1>10. \A metric \in DOMAIN old : ~Worse(metric, old[metric], new[metric])
  BY <1>3, <1>4, <1>5, <1>6, <1>7, <1>8, <1>9
<1> QED BY <1>10 DEF RegressedMetrics, old, new

LEMMA NoWorkflowMetricWorse ==
  ASSUME NEW base \in Results, NEW cand \in Results, cand.replay = base.replay
  PROVE  RegressedMetrics(WorkflowMetrics(base), WorkflowMetrics(cand)) = {}
<1>1. \A state, outcomes : /\ Attempts(cand, state) = Attempts(base, state)
                           /\ Outcome(cand, state, outcomes) = Outcome(base, state, outcomes)
  BY DEF Attempts, Outcome
<1>2. WorkflowMetrics(cand) = WorkflowMetrics(base)
  BY <1>1 DEF WorkflowMetrics
<1>3. \A S \in SUBSET Replays : Cardinality(S) \in Nat
  BY FS_Subset, FS_CardinalityType, CasesAssumption
<1>4. ASSUME NEW a \in Nat, NEW d \in Nat, NEW metric
      PROVE  ~Worse(metric, [n |-> a, d |-> d], [n |-> a, d |-> d])
  BY NotLess DEF Worse
<1>5. \A state, outcomes : /\ Attempts(base, state) \in SUBSET Replays
                           /\ Outcome(base, state, outcomes) \in SUBSET Replays
  BY ResultsAre DEF Attempts, Outcome
<1>6. DOMAIN base.replay \in SUBSET Replays
  BY ResultsAre
<1> DEFINE old == WorkflowMetrics(base)
<1>7. /\ DOMAIN old = {"cases_total", "design_acceptance_rate", "review_rejection_rate",
                       "validation_failure_rate", "writeback_promotion_rate"}
      /\ old.cases_total = [n |-> Cardinality(DOMAIN base.replay), d |-> 1]
      /\ old.design_acceptance_rate =
           [n |-> Cardinality(Outcome(base, "DESIGN_APPROVED", {"accepted"})),
            d |-> Cardinality(Attempts(base, "DESIGN_APPROVED"))]
      /\ old.review_rejection_rate =
           [n |-> Cardinality(Outcome(base, "IMPL_APPROVED", {"rejected", "crashed"})),
            d |-> Cardinality(Attempts(base, "IMPL_APPROVED"))]
      /\ old.validation_failure_rate =
           [n |-> Cardinality(Outcome(base, "VALIDATED", {"rejected", "crashed"})),
            d |-> Cardinality(Attempts(base, "VALIDATED"))]
      /\ old.writeback_promotion_rate =
           [n |-> Cardinality(Outcome(base, "refine", {"accepted"})),
            d |-> Cardinality(Attempts(base, "refine"))]
  BY DEF WorkflowMetrics, Share
<1> HIDE DEF old
<1>8. \A metric \in DOMAIN old : ~Worse(metric, old[metric], old[metric])
  BY <1>3, <1>4, <1>5, <1>6, <1>7
<1> QED BY <1>2, <1>8 DEF RegressedMetrics, old

(* compare_runs calls no improvement a regression.                         *)
LEMMA ImprovementIsOk ==
  ASSUME NEW base \in Results, NEW cand \in Results, Improves(base, cand),
         NEW old \in SUBSET Replays, NEW new \in SUBSET old
  PROVE  Compared(base, cand, old, new).status = "ok"
<1>1. RegressedCases(base, cand) = {}
  <2>1. ASSUME NEW c \in DOMAIN base.gold, Hit(base, c) PROVE Hit(cand, c)
    <3>1. 5 \in 1..MaxHits
      BY DEF MaxHits
    <3>2. c \in Within(cand, 5)
      BY <2>1, <3>1, NoAnswerWorse DEF Within, Hit
    <3> QED BY <3>2 DEF Within, Hit
  <2>2. cand.replay = base.replay
    BY DEF Improves
  <2> QED BY <2>1, <2>2 DEF RegressedCases, Ok
<1>2. cand.replay = base.replay
  BY DEF Improves
<1>3. new \ old = {}
  OBVIOUS
<1> QED BY <1>1, <1>2, <1>3, NoRetrievalMetricWorse, NoWorkflowMetricWorse DEF Compared

-----------------------------------------------------------------------------
(* The theorems.                                                           *)

LEMMA StutterKeeps ==
  ASSUME Inv, UNCHANGED vars PROVE Inv'
<1>1. /\ workspace' = workspace /\ report' = report /\ lines' = lines
      /\ started' = started /\ author' = author /\ pc' = pc /\ mine' = mine
  BY DEF vars
<1>2. \A p \in Procs, i \in Ids : (On(p, i)' <=> On(p, i)) /\ (Reported(p)' <=> Reported(p))
  BY <1>1 DEF On, Reported
<1>3. DiskOK' /\ ProcsOK' /\ CountsOK' /\ Logged'
  BY <1>1 DEF Inv, DiskOK, ProcsOK, CountsOK, Logged
<1>4. \A p \in Procs : Ready(p)' /\ Judged(p)' /\ Decided(p)'
  <2> SUFFICES ASSUME NEW p \in Procs PROVE Ready(p)' /\ Judged(p)' /\ Decided(p)'
    OBVIOUS
  <2>1. /\ ProcsOK /\ Ready(p) /\ Judged(p) /\ Decided(p)
        /\ pc'[p] = pc[p] /\ mine'[p] = mine[p]
    BY <1>1 DEF Inv, FilesOK
  <2> QED BY <1>1, <2>1, ReadyKept, JudgementKept, UnchangedIsBeside
<1>5. \A i \in Ids : \A n \in 1..Len(lines[i]) : Backed(i, lines[i][n])'
  BY <1>1 DEF Inv, FilesOK, Backed, Stored
<1>6. FilesOK'
  BY <1>1, <1>4, <1>5 DEF Inv, FilesOK
<1>7. \A i \in Ids : Authored(i)'
  BY <1>1, <1>2 DEF Inv, Authored, Lone, Owned, Between, Told
<1> QED BY <1>3, <1>4, <1>6, <1>7 DEF Inv

LEMMA StepKeeps ==
  ASSUME Inv, [Next]_vars PROVE Inv'
<1>1. ASSUME NEW p \in Procs, Start(p) PROVE Inv'
  BY <1>1, StartRunKeeps, StartScriptKeeps DEF Start
<1>2. ASSUME NEW p \in Procs, Evaluate(p) PROVE Inv'
  BY <1>2, PrepareKeeps, CollectKeeps, FailsKeeps DEF Evaluate
<1>3. ASSUME NEW p \in Procs, Write(p) PROVE Inv'
  BY <1>3, WriteRunKeeps, WriteDetailsKeeps, WriteReplayKeeps, WriteSummaryKeeps DEF Write
<1>4. ASSUME NEW p \in Procs, Judge(p) PROVE Inv'
  BY <1>4, CompareKeeps, WriteComparisonKeeps, ReportKeeps, ReplayLineKeeps,
     ReleaseLineKeeps DEF Judge
<1>5. ASSUME NEW p \in Procs, Killed(p) PROVE Inv'
  BY <1>5, KilledKeeps
<1> QED BY <1>1, <1>2, <1>3, <1>4, <1>5, StutterKeeps DEF Next, Work

(* The inductive invariant holds of whatever the processes of evaluation   *)
(* leave in the tree of reports, failing or killed at any point.           *)
THEOREM InvAlways == Spec => []Inv
<1>1. Inv /\ [Next]_vars => Inv'
  BY StepKeeps
<1> QED BY InitInv, <1>1, PTL DEF Spec

(* Reports, histories and local variables have their types; in particular  *)
(* no comparison is filed that was not made.                               *)
THEOREM TypeCorrect == Spec => []TypeOK
BY InvAlways, InvTypeOK, PTL

(* No file of a report is there without those it rests on; and run.json,   *)
(* the results beside it and the replay report of a settled id are of one  *)
(* run, if run.json was written by a run that came to the end of its files *)
(* alone, whatever other runs of the id were killed, failed or overlapped  *)
(* before.  It says nothing of comparison, release report and summary.     *)
THEOREM ReportsAreWhole == Spec => []WholeReports
<1>1. ASSUME Inv, NEW i \in Ids, Settled(i), author[i] # None PROVE Whole(report[i])
  BY <1>1 DEF Inv, Authored, Between, Settled
<1>2. Inv => WholeReports
  BY <1>1 DEF WholeReports, Inv, FilesOK
<1> QED BY InvAlways, <1>2, PTL

(* A line of release_check in the ledger has a report, and a comparison if *)
(* it was compared; and what the last run of an id leaves, if it is a      *)
(* release check that was alone, is its line, the report that says the     *)
(* same, and the results it was decided on.                                *)
THEOREM LedgerIsBacked == Spec => []LedgerBacked
<1>1. ASSUME Inv, NEW i \in Ids, Settled(i), author[i] = "release"
      PROVE  /\ lines[i] # <<>>
             /\ report[i].release = lines[i][Len(lines[i])].status
             /\ report[i].run = lines[i][Len(lines[i])].results
  <2>1. author[i] # None
    BY <1>1 DEF None
  <2> QED BY <1>1, <2>1 DEF Inv, Authored, Told, Settled
<1>2. Inv => LedgerBacked
  BY <1>1 DEF LedgerBacked, Inv, FilesOK
<1> QED BY InvAlways, <1>2, PTL

(* A release that the ledger calls "ok" has earned it, whatever processes  *)
(* ran beside the check, were killed, or changed the manifest, the code or *)
(* the contracts meanwhile, for any cases and any profile.                 *)
THEOREM OkIsAlwaysEarned == Spec => []OkIsEarned
<1>1. Inv => OkIsEarned
  BY DEF Inv, Logged, OkIsEarned
<1> QED BY InvAlways, <1>1, PTL

(* Only Compare takes a process from "compare" to "comparison".            *)
LEMMA OnlyCompareFinds ==
  ASSUME Inv, [Next]_vars, NEW p \in Procs, pc[p] = "compare", pc'[p] = "comparison"
  PROVE  Compare(p)
<1>1. pc \in [Procs -> PCs] /\ mine \in [Procs -> Locals]
  BY DEF Inv, ProcsOK
<1>2. \A label, m : Step(p, label, m) => label = "comparison"
  BY <1>1 DEF Step
<1>3. PICK q \in Procs : Start(q) \/ Work(q) \/ Killed(q)
  BY DEF Next, vars
<1>4. \E label, m : Step(q, label, m)
  BY <1>3 DEF Start, StartRun, StartScript, Work, Evaluate, Prepare, Collect,
       Fails, Write, WriteRun, WriteDetails, WriteReplay, WriteSummary,
       Judge, Compare, WriteComparison, Report, ReplayLine, ReleaseLine, Killed,
       Goto, Finish
<1>5. q = p
  BY <1>1, <1>4 DEF Step
<1>6. ~Start(p)
  BY DEF Start
<1>7. ~Killed(p)
  BY <1>2 DEF Killed, Finish
<1>8. ~Evaluate(p)
  BY DEF Evaluate, Prepare, Collect, Fails, Unfinished
<1>9. ~Write(p)
  BY DEF Write, WriteRun, WriteDetails, WriteReplay, WriteSummary
<1>10. ~WriteComparison(p) /\ ~Report(p) /\ ~ReplayLine(p) /\ ~ReleaseLine(p)
  BY DEF WriteComparison, Report, ReplayLine, ReleaseLine
<1> QED BY <1>3, <1>5, <1>6, <1>7, <1>8, <1>9, <1>10 DEF Work, Judge

(* What it finds is compared with what the process names as its baseline.  *)
(* What it finds is compared with what the process names as its baseline.  *)
LEMMA ComparedWith ==
  ASSUME Inv, NEW p \in Procs, Compare(p), pc'[p] = "comparison"
  PROVE  /\ mine'[p].against \in Ids /\ mine[p].id \in Ids
         /\ mine'[p].comparison = Compared(report[mine'[p].against].run, My(p).run,
                                           report[mine'[p].against].summary,
                                           My(p).summary)
<1>1. mine[p].id \in Ids /\ pc \in [Procs -> PCs] /\ mine \in [Procs -> Locals]
  BY Located DEF Inv, ProcsOK, Compare
<1>2. ~Finish(p)
  BY <1>1 DEF Finish, Step
<1> DEFINE Both(b) == Stored(b) /\ Stored(mine[p].id)
<1>3. PICK b \in Ids \cup {None}, m \in Locals :
        /\ Step(p, AfterCompare(Both(b)), m)
        /\ Both(b) => /\ m.against = b
                      /\ m.comparison = Compared(report[b].run, My(p).run,
                                                 report[b].summary, My(p).summary)
  BY <1>2, CompareGoesOn
<1>4. AfterCompare(Both(b)) = "comparison" /\ mine'[p] = m
  BY <1>1, <1>3 DEF Step
<1>5. Both(b)
  BY <1>4 DEF AfterCompare
<1>6. b \in Ids
  BY <1>5 DEF Stored
<1> QED BY <1>1, <1>3, <1>4, <1>5, <1>6

(* compare_runs never calls a regression what is nowhere worse, neither in *)
(* the rank of an answer, nor in what a query that should find nothing     *)
(* finds, nor in the version of a top hit: none of the metrics it compares *)
(* goes the wrong way for an improvement, whatever the corpus.             *)
THEOREM ImprovementsPass == Spec => BetterPasses
<1>1. ASSUME Inv, [Next]_vars, NEW p \in Procs,
             pc[p] = "compare", pc'[p] = "comparison",
             Improves(report[mine'[p].against].run, My(p).run),
             My(p).summary \subseteq report[mine'[p].against].summary
      PROVE  mine'[p].comparison.status = "ok"
  <2>1. Compare(p)
    BY <1>1, OnlyCompareFinds
  <2> DEFINE base == report[mine'[p].against]
  <2>2. /\ mine'[p].against \in Ids /\ mine[p].id \in Ids
        /\ mine'[p].comparison = Compared(base.run, My(p).run, base.summary, My(p).summary)
    BY <1>1, <2>1, ComparedWith
  <2>3. base \in Reports /\ My(p) \in Reports
    BY <1>1, <2>2 DEF Inv, DiskOK, My
  <2> HIDE DEF base
  <2>4. /\ base.run \in Results /\ My(p).run \in Results
        /\ base.summary \in SUBSET Replays
    BY <2>3 DEF Reports
  <2>5. My(p).summary \in SUBSET base.summary /\ Improves(base.run, My(p).run)
    BY <1>1 DEF base
  <2> QED BY <2>2, <2>4, <2>5, ImprovementIsOk
<1>2. Inv /\ [Next]_vars =>
        [\A p \in Procs :
           pc[p] = "compare" /\ pc'[p] = "comparison" =>
             LET b == mine'[p].against IN
             Stored(b) /\ Improves(report[b].run, My(p).run)
             /\ My(p).summary \subseteq report[b].summary
               => mine'[p].comparison.status = "ok"]_vars
  BY <1>1
<1> QED BY InvAlways, <1>2, PTL DEF Spec, BetterPasses
=============================================================================
