----------------------------- MODULE SecurityRuns -----------------------------
(***************************************************************************)
(* The runs of the API Security Lab (securityLab/execution/runService.ts,  *)
(* runPlanner.ts, runSecurityRun.ts, cleanup.ts) and the findings they     *)
(* record (findings/findingService.ts), over the scenarios and the reviews *)
(* of SecurityScenarios. A run is a pool of workers that share one queue   *)
(* and one request budget, then a cleanup that may use what the budget set *)
(* aside for it. Node runs one callback at a time: a worker that is not    *)
(* awaiting an answer moves on before any request is handled (LabQuiet).   *)
(***************************************************************************)
EXTENDS SecurityScenarios

CONSTANTS
  Repeat,        \* per content: how often its request is sent (plannedRequestCount)
  Creates,       \* the contents whose success leaves a resource to clean up
  MaxRequests,   \* limits.maxRequests
  Concurrency,   \* limits.maxConcurrency
  MaxRuns,       \* bound: runs started
  MaxFaults      \* bound: workers that throw

ASSUME RunsAssumption ==
  /\ Repeat \in [Contents -> Nat \ {0}] /\ Creates \subseteq Contents
  /\ {MaxRequests, Concurrency, MaxRuns, MaxFaults} \subseteq Nat

VARIABLES
  run,         \* per run: the row, and the state of runSecurityRun
  worker,      \* per run and worker: where it is, and the attempt it makes
  results,     \* per run and scenario: the outcomes recorded
  finding,     \* per scenario and version
  since,       \* history: the last verdict on a version since the engineer's last decision
  overtaken    \* history: scenarios replaced by another content while a run held them

runVars == <<run, worker, results>>
findingVars == <<finding, since>>
vars == <<scenarioVars, runVars, findingVars, overtaken>>

Runs == 1..MaxRuns
Workers == 1..Concurrency
VersionsOf(s) == 1..MaxVersions[s]
Outcome == {"passed", "failed", "inconclusive", "blocked", "errored", "not_run"}
Out == [at |-> "out", entry |-> "none", done |-> 0]
NoRun == [status |-> "none", phase |-> "none", end |-> "none", aborted |-> FALSE, threw |-> FALSE,
          plan |-> [s \in Scenarios |-> 0], queue |-> <<>>, reserve |-> 0,
          spent |-> 0, created |-> 0]
NoFinding == [status |-> "none", verified |-> FALSE, unreviewed |-> FALSE, occurrences |-> 0]

RunsTypeOK ==
  /\ run \in [Runs -> [status : {"none", "in-progress", "completed", "cancelled", "failed"},
       phase : {"none", "working", "cleanup", "deleting", "over", "lost"},
       end : {"none", "completed", "cancelled", "failed"},
       aborted : BOOLEAN, threw : BOOLEAN, plan : [Scenarios -> Nat],
       queue : Seq(Scenarios), reserve : Nat, spent : Nat, created : Nat]]
  /\ worker \in [Runs -> [Workers -> [at : {"out", "next", "attempt", "sending"},
                                      entry : Scenarios \cup {"none"}, done : Nat]]]
  /\ results \in [Runs -> [Scenarios -> Seq(Outcome)]]
  /\ \A s \in Scenarios : finding[s] \in [VersionsOf(s) ->
       [status : {"none", "open", "dismissed", "resolved"}, verified : BOOLEAN,
        unreviewed : BOOLEAN, occurrences : Nat]]
  /\ \A s \in Scenarios : since[s] \in [VersionsOf(s) -> {"none", "passed", "failed"}]

\* The type invariant.
TypeOK == ScenariosTypeOK /\ RunsTypeOK

Init ==
  /\ ScenariosInit
  /\ run = [n \in Runs |-> NoRun] /\ worker = [n \in Runs |-> [w \in Workers |-> Out]]
  /\ results = [n \in Runs |-> [s \in Scenarios |-> <<>>]]
  /\ finding = [s \in Scenarios |-> [v \in VersionsOf(s) |-> NoFinding]]
  /\ since = [s \in Scenarios |-> [v \in VersionsOf(s) |-> "none"]]
  /\ overtaken = {}

InProgress(n) == run[n].status = "in-progress"
Planned(n) == { s \in Scenarios : run[n].plan[s] # 0 }
PlannedVersion(n, s) == versions[s][run[n].plan[s]]
Finished(n, s) == results[n][s] # <<>>

(* --------------------------- the request budget ------------------------- *)

\* Budget.reserveScenario and Budget.reserveCleanup: a request may still be sent.
reserveScenario(n) == run[n].spent < MaxRequests - run[n].reserve
reserveCleanup(n) == run[n].spent < MaxRequests
Spend(n) == [run[n] EXCEPT !.spent = @ + 1]

(* ------------------------------ the findings ---------------------------- *)

\* Defect: a resolved finding stays resolved when it fails again.
recordFailure_StaysResolved(f) ==
  [f EXCEPT !.status = IF @ = "none" THEN "open" ELSE @,
            !.unreviewed = @ \/ f.status = "dismissed",
            !.occurrences = @ + 1]
recordFailure(f) ==
  [f EXCEPT !.status = IF @ \in {"none", "resolved"} THEN "open" ELSE @,
            !.unreviewed = @ \/ f.status = "dismissed",
            !.occurrences = @ + 1]

recordPass(f) == [f EXCEPT !.verified = @ \/ f.status = "resolved"]

\* recordFinding, of the version that was sent, whatever the scenario's current one is.
recordFinding(s, v, outcome) ==
  LET next == CASE outcome = "failed" -> recordFailure(finding[s][v])
                [] outcome = "passed" -> recordPass(finding[s][v])
                [] OTHER -> finding[s][v]
  IN /\ finding' = [finding EXCEPT ![s][v] = next]
     /\ since' = IF outcome \in {"passed", "failed"}
                 THEN [since EXCEPT ![s][v] = outcome] ELSE since

\* updateFinding: the engineer's change of status, or acknowledgement of new occurrences.
withStatus(f, status) ==
  [f EXCEPT !.status = status, !.verified = @ /\ status # "resolved",
            !.unreviewed = @ /\ status # "open"]
updateFinding(s, v, status) ==
  /\ finding[s][v].status \notin {"none", status}
  /\ "open" \in {finding[s][v].status, status}
  /\ finding' = [finding EXCEPT ![s][v] = withStatus(@, status)]
  /\ since' = [since EXCEPT ![s][v] = "none"]
  /\ UNCHANGED <<scenarioVars, runVars, overtaken>>

acknowledgeOccurrences(s, v) ==
  /\ finding[s][v].unreviewed
  /\ finding' = [finding EXCEPT ![s][v].unreviewed = FALSE]
  /\ since' = [since EXCEPT ![s][v] = "none"]
  /\ UNCHANGED <<scenarioVars, runVars, overtaken>>

(* ------------------------------ the workers ----------------------------- *)

\* The pool is over: one worker threw, or every worker returned.
PoolOver(n) == run[n].threw \/ \A w \in Workers : worker[n][w].at = "out"

\* Nothing is left to do before the next event: all workers await an answer.
LabQuiet ==
  \A n \in Runs :
    /\ \A w \in Workers : \/ worker[n][w].at = "out"
                          \/ worker[n][w].at = "sending" /\ ~run[n].aborted
    /\ run[n].phase = "working" => ~PoolOver(n)
    /\ run[n].phase # "cleanup"

\* Workers that do not await an answer take their steps in the order they were started.
Moving(n, w) == \A v \in 1..(w - 1) : worker[n][v].at \in {"out", "sending"}

\* The result of an attempt. Only something that was sent moves the scenario on, and only what
\* the evaluator judged reaches a finding.
record(n, w, outcome, judged) ==
  LET s == worker[n][w].entry
      v == run[n].plan[s]
  IN /\ results' = [results EXCEPT ![n][s] = Append(@, outcome)]
     /\ worker' = [worker EXCEPT ![n][w] = [Out EXCEPT !.at = "next"]]
     /\ IF outcome \in {"not_run", "blocked"} THEN UNCHANGED head
        ELSE head' = [head EXCEPT ![s].execution = IF judged THEN "evaluated" ELSE "executed"]
     /\ IF judged THEN recordFinding(s, v, outcome) ELSE UNCHANGED findingVars
     /\ UNCHANGED <<loaded, versions, reviewed, repointed, run, overtaken>>

WorkerTakes(n, w) ==
  /\ worker[n][w].at = "next" /\ Moving(n, w)
  /\ IF run[n].aborted \/ run[n].queue = <<>>
     THEN worker' = [worker EXCEPT ![n][w] = Out] /\ UNCHANGED run
     ELSE /\ worker' = [worker EXCEPT ![n][w] =
               [at |-> "attempt", entry |-> Head(run[n].queue), done |-> 0]]
          /\ run' = [run EXCEPT ![n].queue = Tail(@)]
  /\ UNCHANGED <<scenarioVars, results, findingVars, overtaken>>

Attempting(n, w) == worker[n][w].at = "attempt" /\ Moving(n, w)
AllSent(n, w) ==
  worker[n][w].done = Repeat[PlannedVersion(n, worker[n][w].entry).content]

\* buildSecurityRequest fails: a credential the plan was judged with is gone.
NotBuilt(n, w) ==
  /\ Attempting(n, w) /\ worker[n][w].done = 0
  /\ record(n, w, "blocked", FALSE)

\* The loop stops before a request: cancelled, or no budget left and nothing to judge.
AttemptStops(n, w) ==
  /\ Attempting(n, w) /\ ~AllSent(n, w)
  /\ run[n].aborted \/ (~reserveScenario(n) /\ worker[n][w].done = 0)
  /\ record(n, w, "not_run", FALSE)

Sends(n, w) ==
  /\ Attempting(n, w) /\ ~AllSent(n, w) /\ ~run[n].aborted /\ reserveScenario(n)
  /\ run' = [run EXCEPT ![n] = Spend(n)]
  /\ worker' = [worker EXCEPT ![n][w].at = "sending"]
  /\ UNCHANGED <<scenarioVars, results, findingVars, overtaken>>

\* The evaluator judges the responses there are; one that throws leaves them unjudged.
Evaluates(n, w, outcome, judged) ==
  /\ Attempting(n, w)
  /\ \/ AllSent(n, w)
     \/ ~run[n].aborted /\ ~reserveScenario(n) /\ worker[n][w].done > 0
  /\ judged \/ outcome = "inconclusive"
  /\ record(n, w, outcome, judged)

\* Defect: a redirect may use what cleanup needs.
RedirectFollowed_WholeBudget(n, w) ==
  /\ LabQuiet /\ worker[n][w].at = "sending" /\ reserveCleanup(n)
  /\ run' = [run EXCEPT ![n] = Spend(n)]
  /\ UNCHANGED <<scenarioVars, worker, results, findingVars, overtaken>>
\* A redirect is followed if the budget allows it (reserveHop).
RedirectFollowed(n, w) ==
  /\ LabQuiet /\ worker[n][w].at = "sending" /\ reserveScenario(n)
  /\ run' = [run EXCEPT ![n] = Spend(n)]
  /\ UNCHANGED <<scenarioVars, worker, results, findingVars, overtaken>>

\* The answer, or the redirect that was not followed; a success may have created a resource.
ResponseArrives(n, w, creates) ==
  /\ LabQuiet /\ worker[n][w].at = "sending"
  /\ creates => PlannedVersion(n, worker[n][w].entry).content \in Creates
  /\ worker' = [worker EXCEPT ![n][w].at = "attempt", ![n][w].done = @ + 1]
  /\ run' = [run EXCEPT ![n].created = @ + IF creates THEN 1 ELSE 0]
  /\ UNCHANGED <<scenarioVars, results, findingVars, overtaken>>

\* The destination is refused, or the transport fails.
SendFails(n, w, outcome) ==
  /\ LabQuiet /\ worker[n][w].at = "sending"
  /\ record(n, w, outcome, FALSE)

\* The run's signal aborts the request in flight.
SendAborted(n, w) ==
  /\ worker[n][w].at = "sending" /\ run[n].aborted
  /\ record(n, w, "not_run", FALSE)

\* Storing the evidence fails: the worker's promise rejects, and the pool's with it.
\* The other workers are not stopped.
WorkerThrows(n, w) ==
  /\ LabQuiet /\ worker[n][w].at = "sending"
  /\ Cardinality({ m \in Runs : run[m].threw }) < MaxFaults
  /\ worker' = [worker EXCEPT ![n][w] = Out]
  /\ run' = [run EXCEPT ![n].threw = TRUE]
  /\ UNCHANGED <<scenarioVars, results, findingVars, overtaken>>

WorkerStep(n, w) ==
  \/ WorkerTakes(n, w)
  \/ NotBuilt(n, w)
  \/ AttemptStops(n, w)
  \/ Sends(n, w)
  \/ \E outcome \in {"passed", "failed", "inconclusive"}, judged \in BOOLEAN :
       Evaluates(n, w, outcome, judged)
  \/ RedirectFollowed(n, w)
  \/ \E creates \in BOOLEAN : ResponseArrives(n, w, creates)
  \/ \E outcome \in {"blocked", "errored"} : SendFails(n, w, outcome)
  \/ SendAborted(n, w)
  \/ WorkerThrows(n, w)

(* -------------------------------- the run ------------------------------- *)

\* judgeItem finds no problem: the current version is approved, for the operation as it is.
Runnable(s) ==
  /\ Exists(s) /\ head[s].review = "approved" /\ Current(s).approved
  /\ BasisCurrent(s)

\* planRun: the requests of the scenarios, and one of cleanup for each that may create something.
scenarioRequests(items) ==
  Cardinality(UNION { {s} \X (1..Repeat[Current(s).content]) : s \in items })
cleanupRequests(items) == Cardinality({ s \in items : Current(s).content \in Creates })

\* startRun: the plan is judged again and the slot taken with no await in between, and the
\* workers start in the same step. A queue is some order of the items.
startRun(n, queue) ==
  LET items == { queue[i] : i \in DOMAIN queue }
      started == [w \in Workers |-> IF w <= Len(queue) THEN [Out EXCEPT !.at = "next"] ELSE Out]
  IN /\ LabQuiet /\ run[n].status = "none"
     /\ \A m \in Runs : ~InProgress(m) /\ (m < n => run[m].status # "none")
     /\ items # {} /\ \A i, j \in DOMAIN queue : queue[i] = queue[j] => i = j
     /\ \A s \in items : Runnable(s)
     /\ scenarioRequests(items) + cleanupRequests(items) <= MaxRequests
     /\ run' = [run EXCEPT ![n] = [NoRun EXCEPT
                 !.status = "in-progress", !.phase = "working", !.queue = queue,
                 !.plan = [s \in Scenarios |-> IF s \in items THEN head[s].version ELSE 0],
                 !.reserve = cleanupRequests(items)]]
     /\ worker' = [worker EXCEPT ![n] = started]
     /\ UNCHANGED <<scenarioVars, results, findingVars, overtaken>>

\* cancelRun: the workers stop dequeuing and every request in flight is aborted.
cancelRun(n) ==
  /\ LabQuiet /\ InProgress(n) /\ ~run[n].aborted
  /\ run' = [run EXCEPT ![n].aborted = TRUE]
  /\ UNCHANGED <<scenarioVars, worker, results, findingVars, overtaken>>

\* Defect: what was not reached is left without a result.
PoolEnds_ReachedOnly(n) ==
  /\ run[n].phase = "working" /\ PoolOver(n)
  /\ run' = [run EXCEPT ![n].phase = "cleanup",
                        ![n].end = IF run[n].threw THEN "failed"
                                   ELSE IF run[n].aborted THEN "cancelled" ELSE "completed"]
  /\ UNCHANGED <<scenarioVars, worker, results, findingVars, overtaken>>
\* The pool is over. Everything not reached is recorded, and cleanup begins.
PoolEnds(n) ==
  /\ run[n].phase = "working" /\ PoolOver(n)
  /\ results' = [results EXCEPT ![n] =
       [s \in Scenarios |-> IF s \in Planned(n) /\ ~Finished(n, s) THEN <<"not_run">> ELSE @[s]]]
  /\ run' = [run EXCEPT ![n].phase = "cleanup",
                        ![n].end = IF run[n].threw THEN "failed"
                                   ELSE IF run[n].aborted THEN "cancelled" ELSE "completed"]
  /\ UNCHANGED <<scenarioVars, worker, findingVars, overtaken>>

\* runCleanup, for the next created resource: no DELETE for it, no id, no request, or no budget.
CleanupSkips(n) ==
  /\ run[n].phase = "cleanup" /\ run[n].created > 0
  /\ run' = [run EXCEPT ![n].created = @ - 1]
  /\ UNCHANGED <<scenarioVars, worker, results, findingVars, overtaken>>

CleanupSends(n) ==
  /\ run[n].phase = "cleanup" /\ run[n].created > 0 /\ reserveCleanup(n)
  /\ run' = [run EXCEPT ![n] = [Spend(n) EXCEPT !.phase = "deleting"]]
  /\ UNCHANGED <<scenarioVars, worker, results, findingVars, overtaken>>

CleanupRedirected(n) ==
  /\ LabQuiet /\ run[n].phase = "deleting" /\ reserveCleanup(n)
  /\ run' = [run EXCEPT ![n] = Spend(n)]
  /\ UNCHANGED <<scenarioVars, worker, results, findingVars, overtaken>>

\* The delete is answered, refused or failed; a cancel does not abort it.
CleanupAnswered(n) ==
  /\ LabQuiet /\ run[n].phase = "deleting"
  /\ run' = [run EXCEPT ![n].phase = "cleanup", ![n].created = @ - 1]
  /\ UNCHANGED <<scenarioVars, worker, results, findingVars, overtaken>>

\* Defect: a run that failed is not settled.
Settles_NotFailed(n) ==
  /\ run[n].phase = "cleanup" /\ run[n].created = 0
  /\ run' = [run EXCEPT ![n].phase = "over", ![n].status = IF run[n].threw THEN @ ELSE run[n].end]
  /\ UNCHANGED <<scenarioVars, worker, results, findingVars, overtaken>>
\* Every created resource was looked at: the row is settled.
Settles(n) ==
  /\ run[n].phase = "cleanup" /\ run[n].created = 0
  /\ run' = [run EXCEPT ![n].phase = "over", ![n].status = run[n].end]
  /\ UNCHANGED <<scenarioVars, worker, results, findingVars, overtaken>>

\* The backend restarts: markInterruptedRunsCancelled, and no worker or workflow is left.
Restart ==
  /\ LabQuiet /\ \E n \in Runs : InProgress(n)
  /\ run' = [n \in Runs |->
       IF InProgress(n) THEN [run[n] EXCEPT !.status = "cancelled", !.phase = "lost"]
       ELSE run[n]]
  /\ worker' = [n \in Runs |-> [w \in Workers |-> Out]]
  /\ loaded' = "none"
  /\ UNCHANGED <<head, versions, reviewed, repointed, results, findingVars, overtaken>>

\* A worker will still record a result of the scenario.
Held(n, s) == \E w \in Workers :
  worker[n][w].at # "out" /\ (worker[n][w].entry = s \/ \E i \in DOMAIN run[n].queue : run[n].queue[i] = s)

\* A change of a scenario by generation, review or edit, which may give it another content while
\* a run holds it.
ScenarioChanges ==
  /\ LabQuiet /\ ScenariosNext
  /\ overtaken' = overtaken \cup
       { s \in Scenarios : /\ \E n \in Runs : Held(n, s)
                           /\ Current(s)'.content # Current(s).content }
  /\ UNCHANGED <<runVars, findingVars>>

Answers(n) == \/ \E w \in Workers : WorkerStep(n, w)
              \/ PoolEnds(n)
              \/ CleanupSkips(n)
              \/ CleanupSends(n)
              \/ CleanupRedirected(n)
              \/ CleanupAnswered(n)
              \/ Settles(n)

Next ==
  \/ ScenarioChanges
  \/ \E n \in Runs :
       \/ \E k \in 1..Cardinality(Scenarios) : \E queue \in [1..k -> Scenarios] : startRun(n, queue)
       \/ cancelRun(n)
       \/ Answers(n)
  \/ \E s \in Scenarios : \E v \in VersionsOf(s) :
       /\ LabQuiet
       /\ (\E status \in {"open", "dismissed", "resolved"} : updateFinding(s, v, status))
          \/ acknowledgeOccurrences(s, v)
  \/ Restart

Spec == Init /\ [][Next]_vars

\* The event loop runs what is ready, and every request is answered or times out.
FairSpec == Spec /\ \A n \in Runs : WF_vars(Answers(n))

(* ------------------------------ properties ------------------------------ *)

\* Concurrent workers and their redirects never overshoot limits.maxRequests, and never use what
\* the plan set aside for cleanup (Budget, runSecurityRun.ts).
BudgetKept ==
  \A n \in Runs : /\ run[n].spent <= MaxRequests
                  /\ run[n].phase = "working" => run[n].spent <= MaxRequests - run[n].reserve

\* "A settled run has a result per planned scenario" (runSecurityRun.ts), and not two, unless a
\* worker threw while others were still sending.
OneResultEach ==
  \A n \in Runs : run[n].phase = "over" /\ ~run[n].threw =>
    \A s \in Scenarios : Len(results[n][s]) = IF s \in Planned(n) THEN 1 ELSE 0

\* A run only ever takes content a reviewer approved for that scenario, however it was edited,
\* regenerated, withdrawn and approved again since; and approved for the operation as it now is,
\* but for a scenario whose approval an edit of its wording carried over a change of the operation.
ApprovedContentOnly ==
  \A n \in Runs : \A s \in Planned(n) :
    /\ \E b \in Bases : <<s, PlannedVersion(n, s).content, b>> \in reviewed
    /\ s \notin repointed =>
         <<s, PlannedVersion(n, s).content, PlannedVersion(n, s).basis>> \in reviewed

\* The findings of a version say what its results say: each failed result is one occurrence; a
\* version that failed since it was resolved is open again, one marked verified passed since, and
\* a failure of a dismissed finding waits for the engineer (findingService.ts).
FailedResults(s, v) ==
  UNION { {n} \X { i \in DOMAIN results[n][s] : results[n][s][i] = "failed" } :
            n \in { n \in Runs : run[n].plan[s] = v } }
FindingsMatchResults ==
  \A s \in Scenarios : \A v \in VersionsOf(s) :
    LET f == finding[s][v]
    IN /\ f.occurrences = Cardinality(FailedResults(s, v))
       /\ f.status = "resolved" => since[s][v] # "failed"
       /\ f.status = "resolved" /\ f.verified => since[s][v] = "passed"
       /\ f.status = "dismissed" /\ since[s][v] = "failed" => f.unreviewed

\* A scenario shown as executed or evaluated has been: some run sent its current content and got
\* an answer. The exception is a scenario that got another version while a run still held the
\* earlier one, whose result is then shown on the later version.
EvaluatedWasRun ==
  \A s \in Scenarios \ overtaken : head[s].execution # "not_run" =>
    \E n \in Runs : /\ s \in Planned(n) /\ PlannedVersion(n, s).content = Current(s).content
                    /\ \E i \in DOMAIN results[n][s] : results[n][s][i] \notin {"not_run", "blocked"}

\* A started run settles, and frees the slot: cancelled, out of budget, with a worker that threw
\* or with resources that cannot be removed.
RunSettles == \A n \in Runs : InProgress(n) ~> ~InProgress(n)
=============================================================================
