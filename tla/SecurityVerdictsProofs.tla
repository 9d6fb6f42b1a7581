----------------------- MODULE SecurityVerdictsProofs -----------------------
(***************************************************************************)
(* Proofs about what the runs of the API Security Lab leave behind, for    *)
(* any scenarios, versions, limits, number of workers and number of runs:  *)
(* the findings agree with the results they were recorded from, and a      *)
(* scenario shown as executed had its current content sent.                *)
(***************************************************************************)
EXTENDS SecurityRunsProofs

(* ------------------------- what a step does to results ------------------ *)

\* An attempt ends with this outcome. Only what was judged is passed or failed.
Records(n, w, outcome, judged) ==
  /\ Busy(worker[n][w]) /\ outcome \in Outcome /\ judged \in BOOLEAN
  /\ outcome \in {"passed", "failed"} => judged
  /\ judged => outcome \in {"passed", "failed", "inconclusive"}
  /\ record(n, w, outcome, judged)

PlansStay == \A n \in Runs : run'[n].plan = run[n].plan

\* A step of the workers or of the run that records no result.
Silent(n) ==
  /\ UNCHANGED <<scenarioVars, results, findingVars, overtaken>>
  /\ PlansStay

LEMMA AnswersRecord ==
  ASSUME Inv, NEW n \in Runs, Answers(n)
  PROVE  \/ Silent(n) \/ PoolEnds(n)
         \/ \E w \in Workers : \E outcome, judged : Records(n, w, outcome, judged)
<1>1. PlansStay BY AnswersMove, MovesKeeps DEF PlansStay, Inv
<1>2. ASSUME NEW w \in Workers, WorkerStep(n, w)
      PROVE  Silent(n) \/ \E outcome, judged : Records(n, w, outcome, judged)
  <2>1. CASE NotBuilt(n, w)
    <3>1. Records(n, w, "blocked", FALSE)
      BY <2>1 DEF NotBuilt, Attempting, Busy, Records, Outcome
    <3> QED BY <3>1
  <2>2. CASE AttemptStops(n, w)
    <3>1. Records(n, w, "not_run", FALSE)
      BY <2>2 DEF AttemptStops, Attempting, Busy, Records, Outcome
    <3> QED BY <3>1
  <2>3. ASSUME NEW outcome \in {"passed", "failed", "inconclusive"}, NEW judged \in BOOLEAN,
               Evaluates(n, w, outcome, judged)
        PROVE  Records(n, w, outcome, judged)
    <3>1. judged \/ outcome = "inconclusive" BY <2>3 DEF Evaluates
    <3>2. Busy(worker[n][w]) /\ record(n, w, outcome, judged)
      BY <2>3 DEF Evaluates, Attempting, Busy
    <3> QED BY <3>1, <3>2 DEF Records, Outcome
  <2>4. ASSUME NEW outcome \in {"blocked", "errored"}, SendFails(n, w, outcome)
        PROVE  Records(n, w, outcome, FALSE)
    BY <2>4 DEF SendFails, Busy, Records, Outcome
  <2>5. CASE SendAborted(n, w)
    <3>1. Records(n, w, "not_run", FALSE) BY <2>5 DEF SendAborted, Busy, Records, Outcome
    <3> QED BY <3>1
  <2>6. CASE \/ WorkerTakes(n, w) \/ Sends(n, w) \/ RedirectFollowed(n, w) \/ WorkerThrows(n, w)
             \/ \E creates \in BOOLEAN : ResponseArrives(n, w, creates)
    BY <1>1, <2>6
       DEF WorkerTakes, Sends, RedirectFollowed, WorkerThrows, ResponseArrives, Silent
  <2> QED BY <1>2, <2>1, <2>2, <2>3, <2>4, <2>5, <2>6 DEF WorkerStep
<1>3. CASE \/ CleanupSkips(n) \/ CleanupSends(n) \/ CleanupRedirected(n) \/ CleanupAnswered(n)
           \/ Settles(n)
  BY <1>1, <1>3
     DEF CleanupSkips, CleanupSends, CleanupRedirected, CleanupAnswered, Settles, Silent
<1> QED BY <1>2, <1>3 DEF Answers

\* A recorded result is the last of its scenario's; no other result changes.
Appended(n, w, outcome) ==
  \A m \in Runs : \A t \in Scenarios :
    IF m = n /\ t = worker[n][w].entry
    THEN /\ DOMAIN results'[m][t] = DOMAIN results[m][t] \cup {Len(results[m][t]) + 1}
         /\ Len(results[m][t]) + 1 \notin DOMAIN results[m][t]
         /\ \A i \in DOMAIN results[m][t] : results'[m][t][i] = results[m][t][i]
         /\ results'[m][t][Len(results[m][t]) + 1] = outcome
    ELSE results'[m][t] = results[m][t]

LEMMA ResultAppended ==
  ASSUME RunsInv, NEW n \in Runs, NEW w, NEW outcome \in Outcome, NEW judged,
         record(n, w, outcome, judged)
  PROVE  run' = run /\ Appended(n, w, outcome)
<1> DEFINE s == worker[n][w].entry
           res == [results[n] EXCEPT ![s] = Append(results[n][s], outcome)]
<1>1. /\ results \in [Runs -> [Scenarios -> Seq(Outcome)]]
      /\ results[n] \in [Scenarios -> Seq(Outcome)]
  BY DEF RunsInv
<1>2. run' = run /\ results' = [results EXCEPT ![n] = res] BY <1>1 DEF record
<1>3. \A t \in Scenarios : t # s => res[t] = results[n][t] BY <1>1
<1>4. s \in Scenarios => res[s] = Append(results[n][s], outcome) BY <1>1
<1> HIDE DEF res
<1>5. results'[n] = res /\ \A m \in Runs : m # n => results'[m] = results[m] BY <1>1, <1>2
<1>6. ASSUME s \in Scenarios
      PROVE  /\ DOMAIN res[s] = DOMAIN results[n][s] \cup {Len(results[n][s]) + 1}
             /\ Len(results[n][s]) + 1 \notin DOMAIN results[n][s]
             /\ \A i \in DOMAIN results[n][s] : res[s][i] = results[n][s][i]
             /\ res[s][Len(results[n][s]) + 1] = outcome
  <2>1. results[n][s] \in Seq(Outcome) BY <1>1, <1>6
  <2>2. PICK q \in Seq(Outcome) : q = results[n][s] BY <2>1
  <2>3. DOMAIN q = 1..Len(q) /\ Len(q) \in Nat OBVIOUS
  <2>4. /\ DOMAIN Append(q, outcome) = 1..(Len(q) + 1)
        /\ \A j \in 1..Len(q) : Append(q, outcome)[j] = q[j]
        /\ Append(q, outcome)[Len(q) + 1] = outcome
    BY SeqAppend
  <2>5. 1..(Len(q) + 1) = 1..Len(q) \cup {Len(q) + 1} BY <2>3
  <2>6. res[s] = Append(q, outcome) BY <1>4, <1>6, <2>2
  <2> HIDE DEF s
  <2> QED BY <2>2, <2>3, <2>4, <2>5, <2>6
<1> HIDE DEF s
<1> QED BY <1>2, <1>3, <1>5, <1>6 DEF s, Appended

\* What was not reached is recorded as not run: no other result changes.
LEMMA PoolEndsResults ==
  ASSUME RunsInv, NEW n \in Runs, PoolEnds(n)
  PROVE  /\ PlansStay
         /\ \A m \in Runs : \A t \in Scenarios :
              \/ results'[m][t] = results[m][t]
              \/ results[m][t] = <<>> /\ results'[m][t] = <<"not_run">>
<1>1. PlansStay BY PoolEndsMoves, MovesKeeps DEF PlansStay
<1>2. results \in [Runs -> [Scenarios -> Seq(Outcome)]] BY DEF RunsInv
<1>3. \A t \in Scenarios :
        results'[n][t] = IF t \in Planned(n) /\ ~Finished(n, t) THEN <<"not_run">> ELSE results[n][t]
  BY <1>2 DEF PoolEnds
<1>4. \A m \in Runs : m # n => results'[m] = results[m] BY <1>2 DEF PoolEnds
<1> QED BY <1>1, <1>3, <1>4 DEF Finished

\* A run that starts has no result yet.
LEMMA StartsEmpty ==
  ASSUME RunsInv, NEW n \in Runs, NEW queue, startRun(n, queue)
  PROVE  /\ UNCHANGED <<results, scenarioVars, findingVars, overtaken>>
         /\ \A s \in Scenarios : results[n][s] = <<>>
         /\ \A m \in Runs : m # n => run'[m] = run[m] /\ worker'[m] = worker[m]
<1>1. ResultsOK(run[n], worker[n], results[n]) BY RowOf
<1> QED BY <1>1 DEF startRun, ResultsOK, RunsInv

(* -------------------- the findings and their results -------------------- *)

\* FailedResults, of any rows and any results.
FailedIn(rows, res, s, v) ==
  UNION { {n} \X { i \in DOMAIN res[n][s] : res[n][s][i] = "failed" } :
            n \in { n \in Runs : rows[n].plan[s] = v } }

LEMMA FailedNow ==
  \A s, v, n, i : <<n, i>> \in FailedIn(run, results, s, v)
    <=> /\ n \in Runs /\ run[n].plan[s] = v
        /\ i \in DOMAIN results[n][s] /\ results[n][s][i] = "failed"
BY DEF FailedIn

LEMMA FailedNext ==
  \A s, v, n, i : <<n, i>> \in FailedIn(run', results', s, v)
    <=> /\ n \in Runs /\ run'[n].plan[s] = v
        /\ i \in DOMAIN results'[n][s] /\ results'[n][s][i] = "failed"
BY DEF FailedIn

LEMMA FailedPairs ==
  ASSUME NEW rows, NEW res, NEW s, NEW v, NEW x \in FailedIn(rows, res, s, v)
  PROVE  \E n, i : x = <<n, i>>
BY DEF FailedIn

\* What the members of two such sets have in common decides whether they are equal.
LEMMA FailedSame ==
  ASSUME NEW rows, NEW res, NEW rowz, NEW rez, NEW s, NEW v,
         \A n, i : <<n, i>> \in FailedIn(rows, res, s, v) <=> <<n, i>> \in FailedIn(rowz, rez, s, v)
  PROVE  FailedIn(rows, res, s, v) = FailedIn(rowz, rez, s, v)
<1>1. \A x \in FailedIn(rows, res, s, v) : x \in FailedIn(rowz, rez, s, v) BY FailedPairs
<1>2. \A x \in FailedIn(rowz, rez, s, v) : x \in FailedIn(rows, res, s, v) BY FailedPairs
<1> QED BY <1>1, <1>2

\* A finding, the last verdict since the engineer's last decision, and the failures of its version.
\* New occurrences wait to be acknowledged only while the finding is dismissed.
FindingSays(f, last, failures) ==
  /\ IsFiniteSet(failures) /\ f.occurrences = Cardinality(failures)
  /\ f.status = "resolved" => last # "failed"
  /\ f.status = "resolved" /\ f.verified => last = "passed"
  /\ f.status = "dismissed" /\ last = "failed" => f.unreviewed
  /\ f.unreviewed => f.status = "dismissed"

FindingsInv ==
  \A s \in Scenarios : \A v \in VersionsOf(s) :
    FindingSays(finding[s][v], since[s][v], FailedIn(run, results, s, v))

LEMMA SaysFailed ==
  ASSUME NEW f \in FindingRecord, NEW last, NEW failures, NEW x, x \notin failures,
         FindingSays(f, last, failures)
  PROVE  FindingSays(recordFailure(f), "failed", failures \cup {x})
<1>1. /\ IsFiniteSet(failures \cup {x})
      /\ Cardinality(failures \cup {x}) = Cardinality(failures) + 1
  BY FS_AddElement DEF FindingSays
<1> DEFINE k == f.occurrences + 1
           st == IF f.status \in {"none", "resolved"} THEN "open" ELSE f.status
           u == f.unreviewed \/ f.status = "dismissed"
           g == recordFailure(f)
<1>2. g = [f EXCEPT !.status = st, !.unreviewed = u, !.occurrences = k]
  BY DEF recordFailure, FindingRecord
<1>3. st # "resolved" /\ (st = "dismissed" <=> f.status = "dismissed")
  BY DEF FindingRecord
<1>4. u <=> f.status = "dismissed" BY DEF FindingSays, FindingRecord
<1>5. k = Cardinality(failures \cup {x}) BY <1>1 DEF FindingSays
<1> HIDE DEF k, st, u, g
<1>6. g.status = st /\ g.unreviewed = u /\ g.occurrences = k BY <1>2 DEF FindingRecord
<1>7. FindingSays(g, "failed", failures \cup {x}) BY <1>1, <1>3, <1>4, <1>5, <1>6 DEF FindingSays
<1> QED BY <1>7 DEF g

LEMMA SaysPassed ==
  ASSUME NEW f \in FindingRecord, NEW last, NEW failures, FindingSays(f, last, failures)
  PROVE  FindingSays(recordPass(f), "passed", failures)
<1>1. /\ recordPass(f).status = f.status /\ recordPass(f).unreviewed = f.unreviewed
      /\ recordPass(f).occurrences = f.occurrences
  BY DEF recordPass, FindingRecord
<1> QED BY <1>1 DEF FindingSays

LEMMA SaysChanged ==
  ASSUME NEW f \in FindingRecord, NEW last, NEW failures, FindingSays(f, last, failures),
         NEW status \in {"open", "dismissed", "resolved"}, f.status \notin {"none", status},
         "open" \in {f.status, status}
  PROVE  FindingSays(withStatus(f, status), "none", failures)
<1> DEFINE g == withStatus(f, status)
           p == f.verified /\ status # "resolved"
           u == f.unreviewed /\ status # "open"
<1>1. g = [f EXCEPT !.status = status, !.verified = p, !.unreviewed = u]
  BY DEF withStatus, FindingRecord
<1>2. (status = "resolved" => ~p) /\ (u => status = "dismissed")
  BY DEF FindingSays, FindingRecord
<1> HIDE DEF g, p, u
<1>3. g.status = status /\ g.verified = p /\ g.unreviewed = u /\ g.occurrences = f.occurrences
  BY <1>1 DEF FindingRecord
<1>4. FindingSays(g, "none", failures) BY <1>2, <1>3 DEF FindingSays
<1> QED BY <1>4 DEF g

LEMMA SaysAcknowledged ==
  ASSUME NEW f \in FindingRecord, NEW last, NEW failures, FindingSays(f, last, failures),
         f.unreviewed
  PROVE  FindingSays([f EXCEPT !.unreviewed = FALSE], "none", failures)
<1> DEFINE g == [f EXCEPT !.unreviewed = FALSE]
<1>1. g.status = f.status /\ ~g.unreviewed /\ g.occurrences = f.occurrences BY DEF FindingRecord
<1>2. g.status = "dismissed" BY <1>1 DEF FindingSays
<1> HIDE DEF g
<1>3. FindingSays(g, "none", failures) BY <1>1, <1>2 DEF FindingSays
<1> QED BY <1>3 DEF g

\* Runs whose results of the scenario are as they were, or hold no failure, keep its failures.
LEMMA FailuresStay ==
  ASSUME NEW s, NEW v,
         \A m \in Runs :
           \/ run'[m].plan = run[m].plan /\ results'[m][s] = results[m][s]
           \/ /\ \A i \in DOMAIN results[m][s] : results[m][s][i] # "failed"
              /\ \A i \in DOMAIN results'[m][s] : results'[m][s][i] # "failed"
           \/ /\ run'[m].plan = run[m].plan /\ DOMAIN results[m][s] \subseteq DOMAIN results'[m][s]
              /\ \A i \in DOMAIN results[m][s] : results'[m][s][i] = results[m][s][i]
              /\ \A i \in DOMAIN results'[m][s] \ DOMAIN results[m][s] : results'[m][s][i] # "failed"
  PROVE  FailedIn(run', results', s, v) = FailedIn(run, results, s, v)
<1>1. \A n, i : <<n, i>> \in FailedIn(run', results', s, v)
                  <=> <<n, i>> \in FailedIn(run, results, s, v)
  <2> TAKE n, i
  <2>1. <<n, i>> \in FailedIn(run', results', s, v)
          <=> /\ n \in Runs /\ run'[n].plan[s] = v
              /\ i \in DOMAIN results'[n][s] /\ results'[n][s][i] = "failed"
    BY FailedNext
  <2>2. <<n, i>> \in FailedIn(run, results, s, v)
          <=> /\ n \in Runs /\ run[n].plan[s] = v
              /\ i \in DOMAIN results[n][s] /\ results[n][s][i] = "failed"
    BY FailedNow
  <2>3. ASSUME n \in Runs
        PROVE  (run'[n].plan[s] = v /\ i \in DOMAIN results'[n][s] /\ results'[n][s][i] = "failed")
          <=> (run[n].plan[s] = v /\ i \in DOMAIN results[n][s] /\ results[n][s][i] = "failed")
    BY <2>3
  <2> QED BY <2>1, <2>2, <2>3
<1> QED BY <1>1, FailedSame

LEMMA FindingsFrame ==
  ASSUME FindingsInv, UNCHANGED findingVars,
         \A s \in Scenarios : \A v \in VersionsOf(s) :
           FailedIn(run', results', s, v) = FailedIn(run, results, s, v)
  PROVE  FindingsInv'
<1>1. finding' = finding /\ since' = since BY DEF findingVars
<1> SUFFICES ASSUME NEW s \in Scenarios, NEW v \in VersionsOf(s)
             PROVE  FindingSays(finding'[s][v], since'[s][v], FailedIn(run', results', s, v))
  BY DEF FindingsInv, VersionsOf
<1>2. FindingSays(finding[s][v], since[s][v], FailedIn(run, results, s, v)) BY DEF FindingsInv
<1> QED BY <1>1, <1>2

\* One finding changes, and what is remembered of the last verdict on its version.
Sets(s, v, f, last) ==
  finding' = [finding EXCEPT ![s][v] = f] /\ since' = [since EXCEPT ![s][v] = last]

\* It says what its version's failures are then, and those of no other version changed.
LEMMA FindingChanges ==
  ASSUME FindingsInv, FindingsTyped, NEW s, NEW v, NEW f, NEW last,
         Sets(s, v, f, last),
         s \in Scenarios /\ v \in VersionsOf(s) => FindingSays(f, last, FailedIn(run', results', s, v)),
         \A t \in Scenarios : \A u \in VersionsOf(t) : (t = s /\ u = v)
           \/ FailedIn(run', results', t, u) = FailedIn(run, results, t, u)
  PROVE  FindingsInv'
<1> SUFFICES ASSUME NEW t \in Scenarios, NEW u \in VersionsOf(t)
             PROVE  FindingSays(finding'[t][u], since'[t][u], FailedIn(run', results', t, u))
  BY DEF FindingsInv, VersionsOf
<1>1. FindingSays(finding[t][u], since[t][u], FailedIn(run, results, t, u)) BY DEF FindingsInv
<1>2. u \in DOMAIN finding[t] /\ u \in DOMAIN since[t] /\ t \in DOMAIN finding /\ t \in DOMAIN since
  BY DEF FindingsTyped
<1>3. CASE t = s /\ u = v
  <2>1. finding'[t][u] = f /\ since'[t][u] = last BY <1>2, <1>3 DEF Sets
  <2> QED BY <1>3, <2>1
<1>4. CASE ~(t = s /\ u = v)
  <2>1. finding'[t][u] = finding[t][u] /\ since'[t][u] = since[t][u] BY <1>2, <1>4 DEF Sets
  <2> QED BY <1>1, <1>4, <2>1
<1> QED BY <1>3, <1>4

LEMMA RecordSays ==
  ASSUME Inv, FindingsTyped, FindingsInv, NEW n \in Runs, NEW w \in Workers, NEW outcome, NEW judged,
         Records(n, w, outcome, judged)
  PROVE  FindingsInv'
<1> DEFINE s == worker[n][w].entry
           v == run[n].plan[s]
           j == Len(results[n][s]) + 1
<1>0. RunsInv /\ outcome \in Outcome /\ record(n, w, outcome, judged) BY DEF Records, Inv
<1>1. /\ run' = run
      /\ \A m \in Runs : \A t \in Scenarios :
           IF m = n /\ t = s
           THEN /\ DOMAIN results'[m][t] = DOMAIN results[m][t] \cup {j}
                /\ j \notin DOMAIN results[m][t]
                /\ \A i \in DOMAIN results[m][t] : results'[m][t][i] = results[m][t][i]
                /\ results'[m][t][j] = outcome
           ELSE results'[m][t] = results[m][t]
  <2>1. run' = run /\ Appended(n, w, outcome) BY <1>0, ResultAppended
  <2> QED BY <2>1 DEF Appended
<1>2. /\ judged => recordFinding(s, v, outcome)
      /\ ~judged => UNCHANGED findingVars
  BY <1>0 DEF record
<1>3. (outcome = "failed" => judged) /\ (judged => outcome \in {"passed", "failed", "inconclusive"})
  BY DEF Records
<1>4. PICK s0, v0 : s0 = s /\ v0 = v OBVIOUS
<1> HIDE DEF s, v, j
<1>5. \A t \in Scenarios : \A u \in VersionsOf(t) : (t = s /\ u = v /\ outcome = "failed")
        \/ FailedIn(run', results', t, u) = FailedIn(run, results, t, u)
  <2> SUFFICES ASSUME NEW t \in Scenarios, NEW u \in VersionsOf(t),
                      ~(t = s /\ u = v /\ outcome = "failed")
               PROVE  FailedIn(run', results', t, u) = FailedIn(run, results, t, u)
    OBVIOUS
  <2>1. CASE t # s \/ outcome # "failed" BY <1>1, <2>1, FailuresStay
  <2>2. CASE t = s /\ u # v
    <3>1. \A m, i : <<m, i>> \in FailedIn(run', results', t, u)
                      <=> <<m, i>> \in FailedIn(run, results, t, u)
      <4> TAKE m, i
      <4>1. <<m, i>> \in FailedIn(run', results', t, u)
              <=> /\ m \in Runs /\ run'[m].plan[t] = u
                  /\ i \in DOMAIN results'[m][t] /\ results'[m][t][i] = "failed"
        BY FailedNext
      <4>2. <<m, i>> \in FailedIn(run, results, t, u)
              <=> /\ m \in Runs /\ run[m].plan[t] = u
                  /\ i \in DOMAIN results[m][t] /\ results[m][t][i] = "failed"
        BY FailedNow
      <4>3. ASSUME m \in Runs, run[m].plan[t] = u PROVE results'[m][t] = results[m][t]
        BY <1>1, <2>2, <4>3 DEF v
      <4> QED BY <1>1, <4>1, <4>2, <4>3
    <3> QED BY <3>1, FailedSame
  <2> QED BY <2>1, <2>2
<1>6. CASE ~judged BY <1>2, <1>3, <1>5, <1>6, FindingsFrame
<1>7. CASE judged /\ outcome = "inconclusive"
  <2>1. finding' = [finding EXCEPT ![s][v] = finding[s][v]] /\ since' = since
    BY <1>2, <1>7 DEF recordFinding
  <2>2. finding' = finding BY <2>1 DEF FindingsTyped
  <2> QED BY <1>5, <1>7, <2>1, <2>2, FindingsFrame DEF findingVars
<1>8. s \in Scenarios /\ v \in VersionsOf(s) =>
        /\ finding[s][v] \in FindingRecord
        /\ FindingSays(finding[s][v], since[s][v], FailedIn(run, results, s, v))
  BY DEF FindingsTyped, FindingsInv
<1>9. PICK f, last, failures : /\ f = finding[s][v] /\ last = since[s][v]
                               /\ failures = FailedIn(run, results, s, v)
  OBVIOUS
<1>10. CASE judged /\ outcome = "passed"
  <2>1. Sets(s, v, recordPass(f), "passed") BY <1>2, <1>9, <1>10 DEF recordFinding, Sets
  <2>2. s \in Scenarios /\ v \in VersionsOf(s) =>
          FindingSays(recordPass(f), "passed", FailedIn(run', results', s, v))
    BY <1>5, <1>8, <1>9, <1>10, SaysPassed
  <2> DEFINE g == recordPass(f)
  <2>3. Sets(s0, v0, g, "passed") BY <1>4, <2>1
  <2>4. s0 \in Scenarios /\ v0 \in VersionsOf(s0) =>
          FindingSays(g, "passed", FailedIn(run', results', s0, v0))
    BY <1>4, <2>2
  <2>5. \A t \in Scenarios : \A u \in VersionsOf(t) : (t = s0 /\ u = v0)
          \/ FailedIn(run', results', t, u) = FailedIn(run, results, t, u)
    BY <1>4, <1>5
  <2> HIDE DEF g
  <2> QED BY <2>3, <2>4, <2>5, FindingChanges
<1>11. CASE judged /\ outcome = "failed"
  <2>1. Sets(s, v, recordFailure(f), "failed") BY <1>2, <1>9, <1>11 DEF recordFinding, Sets
  <2>2. ASSUME s \in Scenarios, v \in VersionsOf(s)
        PROVE  FindingSays(recordFailure(f), "failed", FailedIn(run', results', s, v))
    <3>1. <<n, j>> \notin failures BY <1>1, <1>9, <2>2, FailedNow, FailedNext
    <3>2. \A m, i : <<m, i>> \in FailedIn(run', results', s, v)
                      <=> <<m, i>> \in FailedIn(run, results, s, v) \/ (m = n /\ i = j)
      <4> TAKE m, i
      <4>1. <<m, i>> \in FailedIn(run', results', s, v)
              <=> /\ m \in Runs /\ run[m].plan[s] = v
                  /\ i \in DOMAIN results'[m][s] /\ results'[m][s][i] = "failed"
        BY <1>1, FailedNext
      <4>2. <<m, i>> \in FailedIn(run, results, s, v)
              <=> /\ m \in Runs /\ run[m].plan[s] = v
                  /\ i \in DOMAIN results[m][s] /\ results[m][s][i] = "failed"
        BY FailedNow
      <4>3. ASSUME m \in Runs, m # n PROVE results'[m][s] = results[m][s]
        BY <1>1, <2>2, <4>3
      <4>4. ASSUME m = n
            PROVE  i \in DOMAIN results'[m][s] /\ results'[m][s][i] = "failed"
              <=> (i \in DOMAIN results[m][s] /\ results[m][s][i] = "failed") \/ i = j
        BY <1>1, <1>11, <2>2, <4>4
      <4>5. run[n].plan[s] = v BY DEF v
      <4> QED BY <4>1, <4>2, <4>3, <4>4, <4>5
    <3>3. FailedIn(run', results', s, v) = failures \cup {<<n, j>>}
      <4>1. PICK older, newer : /\ older = FailedIn(run, results, s, v)
                                /\ newer = FailedIn(run', results', s, v)
        OBVIOUS
      <4>2. \A x \in older : \E m, i : x = <<m, i>> BY <4>1, FailedPairs
      <4>3. \A x \in newer : \E m, i : x = <<m, i>> BY <4>1, FailedPairs
      <4>4. \A m, i : <<m, i>> \in newer <=> <<m, i>> \in older \/ (m = n /\ i = j)
        BY <3>2, <4>1
      <4>5. newer = older \cup {<<n, j>>} BY <4>2, <4>3, <4>4
      <4> QED BY <1>9, <4>1, <4>5
    <3>4. PICK x : x = <<n, j>> OBVIOUS
    <3>5. FindingSays(recordFailure(f), "failed", failures \cup {x})
      BY <1>8, <1>9, <2>2, <3>1, <3>4, SaysFailed
    <3> QED BY <1>9, <3>3, <3>4, <3>5
  <2> DEFINE g == recordFailure(f)
  <2>3. Sets(s0, v0, g, "failed") BY <1>4, <2>1
  <2>4. s0 \in Scenarios /\ v0 \in VersionsOf(s0) =>
          FindingSays(g, "failed", FailedIn(run', results', s0, v0))
    BY <1>4, <2>2
  <2>5. \A t \in Scenarios : \A u \in VersionsOf(t) : (t = s0 /\ u = v0)
          \/ FailedIn(run', results', t, u) = FailedIn(run, results, t, u)
    BY <1>4, <1>5
  <2> HIDE DEF g
  <2> QED BY <2>3, <2>4, <2>5, FindingChanges
<1> QED BY <1>3, <1>6, <1>7, <1>10, <1>11 DEF Records

\* The engineer's decisions and acknowledgements.
LEMMA DecisionSays ==
  ASSUME FindingsTyped, FindingsInv, NEW s \in Scenarios, NEW v \in VersionsOf(s),
         NEW status \in {"open", "dismissed", "resolved"},
         updateFinding(s, v, status) \/ acknowledgeOccurrences(s, v)
  PROVE  FindingsInv'
<1>1. PICK f, last, failures : /\ f = finding[s][v] /\ last = since[s][v]
                               /\ failures = FailedIn(run, results, s, v)
  OBVIOUS
<1>2. f \in FindingRecord /\ FindingSays(f, last, failures) BY <1>1 DEF FindingsTyped, FindingsInv
<1>3. run' = run /\ results' = results BY DEF updateFinding, acknowledgeOccurrences, runVars
<1>4. \A t \in Scenarios : \A u \in VersionsOf(t) :
        FailedIn(run', results', t, u) = FailedIn(run, results, t, u)
  BY <1>3
<1>5. CASE updateFinding(s, v, status)
  <2>1. Sets(s, v, withStatus(f, status), "none") BY <1>1, <1>5 DEF updateFinding, Sets
  <2>2. FindingSays(withStatus(f, status), "none", failures)
    BY <1>1, <1>2, <1>5, SaysChanged DEF updateFinding
  <2> DEFINE g == withStatus(f, status)
  <2>3. Sets(s, v, g, "none") /\ FindingSays(g, "none", FailedIn(run', results', s, v))
    BY <1>1, <1>3, <2>1, <2>2
  <2> HIDE DEF g
  <2> QED BY <1>4, <2>3, FindingChanges
<1>6. CASE acknowledgeOccurrences(s, v)
  <2> DEFINE g == [f EXCEPT !.unreviewed = FALSE]
  <2>1. Sets(s, v, g, "none") BY <1>1, <1>6 DEF acknowledgeOccurrences, Sets, FindingsTyped
  <2>2. FindingSays(g, "none", failures) BY <1>1, <1>2, <1>6, SaysAcknowledged
     DEF acknowledgeOccurrences
  <2>3. FindingSays(g, "none", FailedIn(run', results', s, v)) BY <1>1, <1>3, <2>2
  <2> HIDE DEF g
  <2> QED BY <1>4, <2>1, <2>3, FindingChanges
<1> QED BY <1>5, <1>6

LEMMA SilentSays ==
  ASSUME FindingsInv, UNCHANGED <<results, findingVars>>, PlansStay
  PROVE  FindingsInv'
<1>1. \A t \in Scenarios : \A u \in VersionsOf(t) :
        FailedIn(run', results', t, u) = FailedIn(run, results, t, u)
  <2> TAKE t \in Scenarios
  <2> TAKE u \in VersionsOf(t)
  <2>1. \A m \in Runs : run'[m].plan = run[m].plan /\ results'[m][t] = results[m][t] BY DEF PlansStay
  <2> QED BY <2>1, FailuresStay
<1> QED BY <1>1, FindingsFrame

LEMMA FindingsStep ==
  ASSUME Inv, FindingsTyped, FindingsInv, [Next]_vars
  PROVE  FindingsInv'
<1>0. RunsInv BY DEF Inv
<1>1. CASE ScenarioChanges
  <2>1. UNCHANGED <<results, findingVars>> /\ PlansStay
    BY <1>1 DEF ScenarioChanges, runVars, findingVars, PlansStay
  <2> QED BY <2>1, SilentSays
<1>2. ASSUME NEW n \in Runs, NEW queue, startRun(n, queue) PROVE FindingsInv'
  <2>1. /\ UNCHANGED <<results, findingVars>> /\ \A s \in Scenarios : results[n][s] = <<>>
        /\ \A m \in Runs : m # n => run'[m] = run[m]
    BY <1>0, <1>2, StartsEmpty
  <2>2. \A t \in Scenarios : \A u \in VersionsOf(t) :
          FailedIn(run', results', t, u) = FailedIn(run, results, t, u)
    <3> TAKE t \in Scenarios
    <3> TAKE u \in VersionsOf(t)
    <3>1. results'[n][t] = <<>> /\ results[n][t] = <<>> BY <2>1
    <3>2. \A m \in Runs : m # n => run'[m].plan = run[m].plan /\ results'[m][t] = results[m][t]
      BY <2>1
    <3> QED BY <3>1, <3>2, FailuresStay
  <2> QED BY <2>1, <2>2, FindingsFrame
<1>3. ASSUME NEW n \in Runs, cancelRun(n) PROVE FindingsInv'
  <2>1. PlansStay BY <1>0, <1>3, RowSteps, MovesKeeps DEF PlansStay
  <2>2. UNCHANGED <<results, findingVars>> BY <1>3 DEF cancelRun
  <2> QED BY <2>1, <2>2, SilentSays
<1>4. ASSUME NEW n \in Runs, Answers(n) PROVE FindingsInv'
  <2>1. CASE Silent(n) BY <2>1, SilentSays DEF Silent
  <2>2. CASE PoolEnds(n)
    <3>1. /\ PlansStay
          /\ \A m \in Runs : \A t \in Scenarios :
               \/ results'[m][t] = results[m][t]
               \/ results[m][t] = <<>> /\ results'[m][t] = <<"not_run">>
      BY <1>0, <2>2, PoolEndsResults
    <3>2. \A t \in Scenarios : \A u \in VersionsOf(t) :
            FailedIn(run', results', t, u) = FailedIn(run, results, t, u)
      <4> TAKE t \in Scenarios
      <4> TAKE u \in VersionsOf(t)
      <4>1. \A m \in Runs :
              \/ run'[m].plan = run[m].plan /\ results'[m][t] = results[m][t]
              \/ /\ \A i \in DOMAIN results[m][t] : results[m][t][i] # "failed"
                 /\ \A i \in DOMAIN results'[m][t] : results'[m][t][i] # "failed"
        BY <3>1 DEF PlansStay
      <4> QED BY <4>1, FailuresStay
    <3>3. UNCHANGED findingVars BY <2>2 DEF PoolEnds
    <3> QED BY <3>2, <3>3, FindingsFrame
  <2>3. ASSUME NEW w \in Workers, NEW outcome, NEW judged, Records(n, w, outcome, judged)
        PROVE  FindingsInv'
    BY <2>3, RecordSays
  <2> QED BY <1>4, <2>1, <2>2, <2>3, AnswersRecord
<1>5. ASSUME NEW s \in Scenarios, NEW v \in VersionsOf(s),
             NEW status \in {"open", "dismissed", "resolved"},
             updateFinding(s, v, status) \/ acknowledgeOccurrences(s, v)
      PROVE  FindingsInv'
  BY <1>5, DecisionSays
<1>6. CASE Restart
  <2>1. PlansStay BY <1>0, <1>6, RestartKeeps DEF PlansStay
  <2>2. UNCHANGED <<results, findingVars>> BY <1>6 DEF Restart
  <2> QED BY <2>1, <2>2, SilentSays
<1>7. CASE UNCHANGED vars
  <2>1. UNCHANGED <<results, findingVars>> /\ PlansStay
    BY <1>7 DEF vars, runVars, findingVars, PlansStay
  <2> QED BY <2>1, SilentSays
<1> QED BY <1>1, <1>2, <1>3, <1>4, <1>5, <1>6, <1>7 DEF Next

\* The findings of a version say what its results say: as many occurrences as there are failed
\* results of that version in all runs, and a status that fits the last verdict since the
\* engineer's last decision (recordFinding, updateFinding; findingService.ts).
THEOREM FindingsSayWhatFailed == Spec => []FindingsMatchResults
<1>1. Init => FindingsInv
  <2> SUFFICES ASSUME Init, NEW s \in Scenarios, NEW v \in VersionsOf(s)
               PROVE  FindingSays(finding[s][v], since[s][v], FailedIn(run, results, s, v))
    BY DEF FindingsInv
  <2>1. \A n \in Runs : results[n][s] = <<>> BY DEF Init
  <2>2. FailedIn(run, results, s, v) = {} BY <2>1 DEF FailedIn
  <2>3. finding[s][v] = NoFinding BY DEF Init
  <2>4. NoFinding.status = "none" /\ ~NoFinding.unreviewed /\ NoFinding.occurrences = 0
    BY DEF NoFinding
  <2> QED BY <2>2, <2>3, <2>4, FS_EmptySet DEF FindingSays
<1>2. Inv /\ FindingsTyped /\ FindingsInv /\ [Next]_vars => FindingsInv' BY FindingsStep
<1>3. FindingsInv => FindingsMatchResults
  <2> SUFFICES ASSUME FindingsInv, NEW s \in Scenarios, NEW v \in VersionsOf(s)
               PROVE  /\ finding[s][v].occurrences = Cardinality(FailedResults(s, v))
                      /\ finding[s][v].status = "resolved" => since[s][v] # "failed"
                      /\ finding[s][v].status = "resolved" /\ finding[s][v].verified
                           => since[s][v] = "passed"
                      /\ finding[s][v].status = "dismissed" /\ since[s][v] = "failed"
                           => finding[s][v].unreviewed
    BY DEF FindingsMatchResults
  <2>1. FailedResults(s, v) = FailedIn(run, results, s, v) BY DEF FailedResults, FailedIn
  <2> QED BY <2>1 DEF FindingsInv, FindingSays
<1> QED BY <1>1, <1>2, <1>3, SpecInv, SpecFindingsTyped, PTL DEF Spec

(* --------------------- what a scenario is shown as ---------------------- *)

\* A worker of the run has the scenario in hand, or will take it from the queue.
Holds(r, wk, s) ==
  \E w \in Workers :
    \/ Busy(wk[w]) /\ wk[w].entry = s
    \/ wk[w].at # "out" /\ \E i \in 1..Len(r.queue) : r.queue[i] = s

\* Whatever a run still holds is planned with the content the scenario has now, unless the
\* scenario was overtaken.
HeldInv ==
  \A n \in Runs : \A s \in Scenarios : Holds(run[n], worker[n], s) =>
    /\ run[n].plan[s] # 0
    /\ s \notin overtaken => PlannedVersion(n, s).content = Current(s).content

ShownInv == HeldInv /\ EvaluatedWasRun

HoldsLess ==
  \A n \in Runs : \A s \in Scenarios :
    Holds(run'[n], worker'[n], s) => Holds(run[n], worker[n], s)

\* No scenario gets another version, and none is overtaken.
VersionsStay ==
  /\ UNCHANGED <<versions, overtaken>>
  /\ \A s \in Scenarios : head'[s].version = head[s].version

LEMMA HeldFrame ==
  ASSUME HeldInv, PlansStay, VersionsStay, HoldsLess
  PROVE  HeldInv'
<1> SUFFICES ASSUME NEW n \in Runs, NEW s \in Scenarios, Holds(run'[n], worker'[n], s)
             PROVE  /\ run'[n].plan[s] # 0
                    /\ s \notin overtaken' =>
                         versions'[s][run'[n].plan[s]].content = versions'[s][head'[s].version].content
  BY DEF HeldInv, PlannedVersion, Current
<1>1. Holds(run[n], worker[n], s) BY DEF HoldsLess
<1>2. /\ run[n].plan[s] # 0
      /\ s \notin overtaken =>
           versions[s][run[n].plan[s]].content = versions[s][head[s].version].content
  BY <1>1 DEF HeldInv, PlannedVersion, Current
<1> QED BY <1>2 DEF PlansStay, VersionsStay

\* Workers that keep what they have, or let go of it.
LEMMA HoldsLessOf ==
  ASSUME RunsInv,
         \A m \in Runs : run'[m].queue = run[m].queue,
         \A m \in Runs : \A w \in Workers :
           /\ Busy(worker'[m][w]) => Busy(worker[m][w]) /\ worker'[m][w].entry = worker[m][w].entry
           /\ worker[m][w].at = "out" => worker'[m][w].at = "out"
  PROVE  HoldsLess
<1> SUFFICES ASSUME NEW n \in Runs, NEW s \in Scenarios, Holds(run'[n], worker'[n], s)
             PROVE  Holds(run[n], worker[n], s)
  BY DEF HoldsLess
<1>1. PICK w \in Workers : \/ Busy(worker'[n][w]) /\ worker'[n][w].entry = s
                           \/ worker'[n][w].at # "out"
                              /\ \E i \in 1..Len(run'[n].queue) : run'[n].queue[i] = s
  BY DEF Holds
<1>2. CASE Busy(worker'[n][w]) /\ worker'[n][w].entry = s
  <2>1. Busy(worker[n][w]) /\ worker[n][w].entry = s BY <1>2
  <2> QED BY <2>1 DEF Holds
<1>3. CASE worker'[n][w].at # "out" /\ \E i \in 1..Len(run'[n].queue) : run'[n].queue[i] = s
  <2>1. worker[n][w].at # "out" /\ run'[n].queue = run[n].queue BY <1>3
  <2> QED BY <1>3, <2>1 DEF Holds
<1> QED BY <1>1, <1>2, <1>3

\* The worker of a run changes.
LEMMA WorkerChanges ==
  ASSUME RunsInv, NEW n \in Runs, NEW w \in Workers, NEW k,
         worker' = [worker EXCEPT ![n][w] = k], \A m \in Runs : run'[m].queue = run[m].queue,
         worker[n][w].at # "out",
         Busy(k) => Busy(worker[n][w]) /\ k.entry = worker[n][w].entry
  PROVE  HoldsLess
<1>1. worker \in [Runs -> [Workers -> WorkerRecord]] BY DEF RunsInv
<1>2. \A m \in Runs : \A u \in Workers :
        worker'[m][u] = IF m = n /\ u = w THEN k ELSE worker[m][u]
  BY <1>1
<1> QED BY <1>2, HoldsLessOf

LEMMA TakesLess ==
  ASSUME RunsInv, NEW n \in Runs, NEW w \in Workers, WorkerTakes(n, w)
  PROVE  HoldsLess
<1>1. worker[n][w].at # "out" BY DEF WorkerTakes
<1>2. /\ run \in [Runs -> RunRecord] /\ run[n] \in RunRecord
      /\ worker \in [Runs -> [Workers -> WorkerRecord]]
  BY DEF RunsInv
<1>3. CASE run[n].aborted \/ run[n].queue = <<>>
  <2>1. worker' = [worker EXCEPT ![n][w] = Out] /\ run' = run BY <1>3 DEF WorkerTakes
  <2>2. ~Busy(Out) BY OutTyped
  <2>3. PICK k : k = Out OBVIOUS
  <2>4. worker' = [worker EXCEPT ![n][w] = k] /\ ~Busy(k) BY <2>1, <2>2, <2>3
  <2> QED BY <1>1, <2>1, <2>4, WorkerChanges
<1>4. CASE ~(run[n].aborted \/ run[n].queue = <<>>)
  <2> DEFINE k == [at |-> "attempt", entry |-> Head(run[n].queue), done |-> 0]
  <2>1. /\ worker' = [worker EXCEPT ![n][w] = k] /\ run' = [run EXCEPT ![n].queue = Tail(@)]
    BY <1>4 DEF WorkerTakes
  <2>2. PICK q \in Seq(Scenarios) : q = run[n].queue BY <1>2 DEF RunRecord
  <2>3. q # <<>> BY <1>4, <2>2
  <2>4. /\ Head(q) = q[1] /\ 1 \in 1..Len(q) /\ Len(Tail(q)) = Len(q) - 1
        /\ \A i \in 1..Len(Tail(q)) : Tail(q)[i] = q[i + 1] /\ i + 1 \in 1..Len(q)
    BY <2>3
  <2>5. run'[n].queue = Tail(q) /\ \A m \in Runs : m # n => run'[m] = run[m]
    BY <1>2, <2>1, <2>2 DEF RunRecord
  <2>6. k.entry = q[1] BY <2>2, <2>4
  <2> HIDE DEF k
  <2>7. \A m \in Runs : \A u \in Workers :
          worker'[m][u] = IF m = n /\ u = w THEN k ELSE worker[m][u]
    BY <1>2, <2>1
  <2> SUFFICES ASSUME NEW m \in Runs, NEW s \in Scenarios, Holds(run'[m], worker'[m], s)
               PROVE  Holds(run[m], worker[m], s)
    BY DEF HoldsLess
  <2>8. CASE m # n
    <3>1. run'[m] = run[m] /\ \A u \in Workers : worker'[m][u] = worker[m][u] BY <2>5, <2>7, <2>8
    <3> QED BY <3>1 DEF Holds
  <2>9. CASE m = n
    <3>1. PICK u \in Workers : \/ Busy(worker'[n][u]) /\ worker'[n][u].entry = s
                               \/ worker'[n][u].at # "out"
                                  /\ \E i \in 1..Len(run'[n].queue) : run'[n].queue[i] = s
      BY <2>9 DEF Holds
    <3>2. CASE u # w /\ Busy(worker'[n][u]) /\ worker'[n][u].entry = s
      <4>1. Busy(worker[n][u]) /\ worker[n][u].entry = s BY <2>7, <3>2
      <4> QED BY <2>9, <4>1 DEF Holds
    <3>3. CASE u = w /\ Busy(worker'[n][u]) /\ worker'[n][u].entry = s
      <4>1. run[n].queue[1] = s /\ 1 \in 1..Len(run[n].queue) BY <2>2, <2>4, <2>6, <2>7, <3>3
      <4> QED BY <1>1, <2>9, <4>1 DEF Holds
    <3>4. CASE \E i \in 1..Len(run'[n].queue) : run'[n].queue[i] = s
      <4>1. PICK i \in 1..Len(Tail(q)) : Tail(q)[i] = s BY <2>5, <3>4
      <4>2. run[n].queue[i + 1] = s /\ i + 1 \in 1..Len(run[n].queue) BY <2>2, <2>4, <4>1
      <4> QED BY <1>1, <2>9, <4>2 DEF Holds
    <3> QED BY <3>1, <3>2, <3>3, <3>4
  <2> QED BY <2>8, <2>9
<1> QED BY <1>3, <1>4

LEMMA RecordLess ==
  ASSUME RunsInv, NEW n \in Runs, NEW w \in Workers, NEW outcome, NEW judged,
         record(n, w, outcome, judged), Busy(worker[n][w])
  PROVE  HoldsLess
<1>1. PICK k : k = [Out EXCEPT !.at = "next"] OBVIOUS
<1>2. k.at = "next" BY <1>1 DEF Out
<1>3. worker' = [worker EXCEPT ![n][w] = k] /\ run' = run BY <1>1 DEF record
<1> QED BY <1>2, <1>3, WorkerChanges DEF Busy

\* Whatever a run does, it holds no more than it did.
LEMMA AnswersLess ==
  ASSUME Inv, NEW n \in Runs, Answers(n)
  PROVE  HoldsLess
<1>0. RunsInv /\ run \in [Runs -> RunRecord] /\ worker \in [Runs -> [Workers -> WorkerRecord]]
  BY DEF Inv, RunsInv
<1>1. ASSUME NEW w \in Workers, WorkerStep(n, w) PROVE HoldsLess
  <2>1. CASE \/ NotBuilt(n, w) \/ AttemptStops(n, w) \/ SendAborted(n, w)
             \/ \E outcome \in {"passed", "failed", "inconclusive"}, judged \in BOOLEAN :
                  Evaluates(n, w, outcome, judged)
             \/ \E outcome \in {"blocked", "errored"} : SendFails(n, w, outcome)
    <3>1. PICK outcome, judged : record(n, w, outcome, judged) /\ Busy(worker[n][w])
      BY <2>1 DEF NotBuilt, AttemptStops, SendAborted, Evaluates, SendFails, Attempting, Busy
    <3> QED BY <1>0, <3>1, RecordLess
  <2>2. CASE WorkerTakes(n, w) BY <1>0, <2>2, TakesLess
  <2>3. CASE Sends(n, w)
    <3>1. /\ worker' = [worker EXCEPT ![n][w].at = "sending"] /\ worker[n][w].at = "attempt"
          /\ run' = [run EXCEPT ![n] = Spend(n)]
      BY <2>3 DEF Sends, Attempting
    <3>2. PICK k : k = [worker[n][w] EXCEPT !.at = "sending"] OBVIOUS
    <3>3. worker' = [worker EXCEPT ![n][w] = k] BY <3>1, <3>2
    <3>4. k.entry = worker[n][w].entry BY <1>0, <3>2 DEF WorkerRecord
    <3>5. \A m \in Runs : run'[m].queue = run[m].queue BY <1>0, <3>1 DEF Spend, RunRecord
    <3>6. Busy(worker[n][w]) /\ worker[n][w].at # "out" BY <3>1 DEF Busy
    <3> QED BY <1>0, <3>3, <3>4, <3>5, <3>6, WorkerChanges
  <2>4. CASE RedirectFollowed(n, w)
    <3>1. worker' = worker /\ run' = [run EXCEPT ![n] = Spend(n)] BY <2>4 DEF RedirectFollowed
    <3>2. \A m \in Runs : run'[m].queue = run[m].queue BY <1>0, <3>1 DEF Spend, RunRecord
    <3> QED BY <1>0, <3>1, <3>2, HoldsLessOf
  <2>5. ASSUME NEW creates \in BOOLEAN, ResponseArrives(n, w, creates) PROVE HoldsLess
    <3>1. /\ worker' = [worker EXCEPT ![n][w].at = "attempt", ![n][w].done = @ + 1]
          /\ worker[n][w].at = "sending"
          /\ run' = [run EXCEPT ![n].created = @ + IF creates THEN 1 ELSE 0]
      BY <2>5 DEF ResponseArrives
    <3>2. worker[n][w] \in WorkerRecord BY <1>0
    <3>3. \A m \in Runs : \A u \in Workers : worker'[m][u].entry = worker[m][u].entry
      BY <1>0, <3>1 DEF WorkerRecord
    <3>4. \A m \in Runs : \A u \in Workers : ~(m = n /\ u = w) => worker'[m][u] = worker[m][u]
      BY <1>0, <3>1
    <3>5. \A m \in Runs : run'[m].queue = run[m].queue BY <1>0, <3>1 DEF RunRecord
    <3> QED BY <1>0, <3>1, <3>3, <3>4, <3>5, HoldsLessOf DEF Busy
  <2>6. CASE WorkerThrows(n, w)
    <3>1. /\ worker' = [worker EXCEPT ![n][w] = Out] /\ worker[n][w].at = "sending"
          /\ run' = [run EXCEPT ![n].threw = TRUE]
      BY <2>6 DEF WorkerThrows
    <3>2. PICK k : k = Out OBVIOUS
    <3>3. worker' = [worker EXCEPT ![n][w] = k] /\ ~Busy(k) BY <3>1, <3>2, OutTyped
    <3>4. \A m \in Runs : run'[m].queue = run[m].queue BY <1>0, <3>1 DEF RunRecord
    <3>5. worker[n][w].at # "out" BY <3>1
    <3> QED BY <1>0, <3>3, <3>4, <3>5, WorkerChanges
  <2> QED BY <1>1, <2>1, <2>2, <2>3, <2>4, <2>5, <2>6 DEF WorkerStep
<1>2. CASE \/ PoolEnds(n) \/ CleanupSkips(n) \/ CleanupSends(n) \/ CleanupRedirected(n)
           \/ CleanupAnswered(n) \/ Settles(n)
  <2>1. worker' = worker
    BY <1>2 DEF PoolEnds, CleanupSkips, CleanupSends, CleanupRedirected, CleanupAnswered, Settles
  <2>2. \A m \in Runs : run'[m].queue = run[m].queue
    <3>0. run[n] \in RunRecord BY <1>0
    <3>1. CASE PoolEnds(n) BY <1>0, <3>0, <3>1 DEF PoolEnds, RunRecord
    <3>2. CASE CleanupSkips(n) BY <1>0, <3>0, <3>2 DEF CleanupSkips, RunRecord
    <3>3. CASE CleanupSends(n)
      <4> DEFINE q == [Spend(n) EXCEPT !.phase = "deleting"]
      <4>1. run' = [run EXCEPT ![n] = q] BY <3>3 DEF CleanupSends
      <4>2. q.queue = run[n].queue BY <3>0 DEF Spend, RunRecord
      <4> HIDE DEF q
      <4> QED BY <1>0, <4>1, <4>2
    <3>4. CASE CleanupRedirected(n) BY <1>0, <3>0, <3>4 DEF CleanupRedirected, Spend, RunRecord
    <3>5. CASE CleanupAnswered(n) BY <1>0, <3>0, <3>5 DEF CleanupAnswered, RunRecord
    <3>6. CASE Settles(n) BY <1>0, <3>0, <3>6 DEF Settles, RunRecord
    <3> QED BY <1>2, <3>1, <3>2, <3>3, <3>4, <3>5, <3>6
  <2> QED BY <1>0, <2>1, <2>2, HoldsLessOf
<1> QED BY <1>1, <1>2 DEF Answers

\* Every change of a scenario keeps both its content and what it is shown as, or shows it as not
\* run.
ShownOrReset ==
  \A s \in Scenarios :
    \/ head'[s].execution = "not_run"
    \/ /\ head'[s].execution = head[s].execution
       /\ versions'[s][head'[s].version].content = versions[s][head[s].version].content

LEMMA InsertShows ==
  ASSUME ScenariosTypeOK, NEW s \in Scenarios, NEW x, NEW review, NEW execution,
         insertVersion(s, x, review, execution),
         \/ execution = "not_run"
         \/ execution = head[s].execution /\ x.content = Current(s).content
  PROVE  ShownOrReset
<1>1. /\ versions' = [versions EXCEPT ![s] = Append(versions[s], x)]
      /\ head' = [head EXCEPT ![s] = [version |-> head[s].version + 1, review |-> review,
                                      execution |-> execution]]
      /\ versions[s] \in Seq(Version) /\ Len(versions[s]) = head[s].version
  BY DEF insertVersion, ScenariosTypeOK
<1>2. /\ \A t \in Scenarios : t # s => versions'[t] = versions[t] /\ head'[t] = head[t]
      /\ versions'[s] = Append(versions[s], x)
      /\ head'[s].version = head[s].version + 1 /\ head'[s].execution = execution
  BY <1>1 DEF ScenariosTypeOK
<1>3. versions'[s][head'[s].version] = x
  <2>1. PICK q \in Seq(Version) : q = versions[s] BY <1>1
  <2>2. Append(q, x)[Len(q) + 1] = x OBVIOUS
  <2> QED BY <1>1, <1>2, <2>1, <2>2
<1> QED BY <1>2, <1>3 DEF ShownOrReset, Current

LEMMA ChangeShows ==
  ASSUME ScenariosTypeOK, ScenariosNext
  PROVE  ShownOrReset
<1>1. ASSUME NEW b, LoadSpecification(b) PROVE ShownOrReset
  BY <1>1 DEF LoadSpecification, ShownOrReset
<1>2. ASSUME NEW s \in Scenarios, generateScenario(s) PROVE ShownOrReset
  <2>1. PICK x, review : insertVersion(s, x, review, "not_run") BY <1>2 DEF generateScenario
  <2> QED BY <2>1, InsertShows
<1>3. ASSUME NEW s \in Scenarios, NEW content \in Contents, editScenario(s, content)
      PROVE  ShownOrReset
  <2> DEFINE material == content # Current(s).content
             y == [content |-> content, author |-> "user",
                   basis |-> IF loaded = "none" THEN Current(s).basis ELSE loaded,
                   approved |-> ~material /\ Current(s).approved]
             state == IF material /\ head[s].review = "approved" THEN "in_review"
                                                                 ELSE head[s].review
             shown == IF material THEN "not_run" ELSE head[s].execution
  <2>1. insertVersion(s, y, state, shown) BY <1>3 DEF editScenario
  <2>2. \/ shown = "not_run"
        \/ shown = head[s].execution /\ y.content = Current(s).content
    OBVIOUS
  <2>3. PICK x, review, execution : x = y /\ review = state /\ execution = shown OBVIOUS
  <2> HIDE DEF y, state, shown
  <2>4. /\ insertVersion(s, x, review, execution)
        /\ \/ execution = "not_run"
           \/ execution = head[s].execution /\ x.content = Current(s).content
    BY <2>1, <2>2, <2>3
  <2> QED BY <2>4, InsertShows
<1>4. ASSUME NEW s \in Scenarios, NEW action \in ReviewAction, reviewOne(s, action)
      PROVE  ShownOrReset
  <2>1. head' = [head EXCEPT ![s].review = TRANSITIONS[head[s].review][action]]
    BY <1>4 DEF reviewOne
  <2>2. \A t \in Scenarios : head'[t].version = head[t].version
                             /\ head'[t].execution = head[t].execution
    <3>1. PICK z : z = TRANSITIONS[head[s].review][action] OBVIOUS
    <3>2. head' = [head EXCEPT ![s].review = z] BY <2>1, <3>1
    <3> QED BY <3>2 DEF ScenariosTypeOK
  <2>3. head[s].version \in 1..Len(versions[s]) /\ Current(s) \in Version
    BY <1>4, CurrentTyped DEF reviewOne
  <2>4. \A t \in Scenarios :
          versions'[t][head[t].version].content = versions[t][head[t].version].content
    <3>1. CASE UNCHANGED versions BY <3>1
    <3>2. CASE setApproval(s, action = "approve")
      <4> DEFINE y == [Current(s) EXCEPT !.approved = (action = "approve")]
      <4>1. versions' = [versions EXCEPT ![s] = [versions[s] EXCEPT ![head[s].version] = y]]
        BY <3>2 DEF setApproval, Current
      <4>2. y.content = Current(s).content BY <2>3 DEF Version
      <4>3. PICK v \in 1..Len(versions[s]) : v = head[s].version BY <2>3
      <4> HIDE DEF y
      <4>4. versions[s] \in Seq(Version) /\ versions \in [Scenarios -> Seq(Version)]
        BY DEF ScenariosTypeOK
      <4>5. /\ versions'[s] = [versions[s] EXCEPT ![v] = y]
            /\ \A t \in Scenarios : t # s => versions'[t] = versions[t]
        BY <4>1, <4>3, <4>4
      <4>6. versions'[s][v] = y BY <4>3, <4>4, <4>5
      <4> QED BY <4>2, <4>3, <4>5, <4>6 DEF Current
    <3> QED BY <1>4, <3>1, <3>2 DEF reviewOne
  <2> QED BY <2>2, <2>4 DEF ShownOrReset
<1> QED BY <1>1, <1>2, <1>3, <1>4 DEF ScenariosNext

\* Results are never lost, and a scenario is shown as before while its content is the same.
LEMMA ShownFrame ==
  ASSUME Inv, EvaluatedWasRun, NEW s \in Scenarios, s \notin overtaken, head[s].execution # "not_run",
         \A v \in 1..Len(versions[s]) : versions'[s][v].content = versions[s][v].content,
         \A n \in Runs : results[n][s] # <<>> => run'[n].plan = run[n].plan,
         \A n \in Runs : /\ DOMAIN results[n][s] \subseteq DOMAIN results'[n][s]
                         /\ \A i \in DOMAIN results[n][s] : results'[n][s][i] = results[n][s][i],
         versions'[s][head'[s].version].content = versions[s][head[s].version].content
  PROVE  \E n \in Runs :
           /\ s \in Planned(n)' /\ PlannedVersion(n, s)'.content = Current(s)'.content
           /\ \E i \in DOMAIN results'[n][s] : results'[n][s][i] \notin {"not_run", "blocked"}
<1>1. PICK n \in Runs :
        /\ s \in Planned(n) /\ PlannedVersion(n, s).content = Current(s).content
        /\ \E i \in DOMAIN results[n][s] : results[n][s][i] \notin {"not_run", "blocked"}
  BY DEF EvaluatedWasRun
<1>2. PICK i \in DOMAIN results[n][s] : results[n][s][i] \notin {"not_run", "blocked"} BY <1>1
<1>3. results[n][s] # <<>> BY <1>2
<1>4. run'[n].plan[s] = run[n].plan[s] /\ run[n].plan[s] # 0 BY <1>1, <1>3 DEF Planned
<1>5. run[n].plan[s] \in 1..Len(versions[s]) BY <1>4 DEF Inv, PlanInv
<1>6. versions'[s][run'[n].plan[s]].content = versions'[s][head'[s].version].content
  BY <1>1, <1>4, <1>5 DEF PlannedVersion, Current
<1>7. i \in DOMAIN results'[n][s] /\ results'[n][s][i] \notin {"not_run", "blocked"} BY <1>2
<1>8. s \in Planned(n)' BY <1>4 DEF Planned
<1>9. PlannedVersion(n, s)'.content = Current(s)'.content BY <1>6 DEF PlannedVersion, Current
<1> QED BY <1>7, <1>8, <1>9

\* The results a step leaves alone.
LEMMA ShownSame ==
  ASSUME Inv, EvaluatedWasRun, VersionsStay,
         \A n \in Runs : \A s \in Scenarios : results[n][s] # <<>> => run'[n].plan = run[n].plan,
         \A n \in Runs : \A s \in Scenarios :
           /\ DOMAIN results[n][s] \subseteq DOMAIN results'[n][s]
           /\ \A i \in DOMAIN results[n][s] : results'[n][s][i] = results[n][s][i],
         NEW s \in Scenarios, s \notin overtaken, head[s].execution # "not_run"
  PROVE  \E n \in Runs :
           /\ s \in Planned(n)' /\ PlannedVersion(n, s)'.content = Current(s)'.content
           /\ \E i \in DOMAIN results'[n][s] : results'[n][s][i] \notin {"not_run", "blocked"}
<1>1. /\ \A v \in 1..Len(versions[s]) : versions'[s][v].content = versions[s][v].content
      /\ versions'[s][head'[s].version].content = versions[s][head[s].version].content
  BY DEF VersionsStay
<1>2. /\ \A n \in Runs : results[n][s] # <<>> => run'[n].plan = run[n].plan
      /\ \A n \in Runs : /\ DOMAIN results[n][s] \subseteq DOMAIN results'[n][s]
                         /\ \A i \in DOMAIN results[n][s] : results'[n][s][i] = results[n][s][i]
  OBVIOUS
<1> QED BY <1>1, <1>2, ShownFrame

\* A step that changes no scenario, loses no result and holds nothing more.
LEMMA ShownKept ==
  ASSUME Inv, ShownInv, VersionsStay, PlansStay, HoldsLess,
         \A s \in Scenarios : head'[s].execution = head[s].execution,
         \A n \in Runs : \A s \in Scenarios :
           /\ DOMAIN results[n][s] \subseteq DOMAIN results'[n][s]
           /\ \A i \in DOMAIN results[n][s] : results'[n][s][i] = results[n][s][i]
  PROVE  ShownInv'
<1>1. HeldInv' BY HeldFrame DEF ShownInv
<1>2. EvaluatedWasRun'
  <2> SUFFICES ASSUME NEW s \in Scenarios, s \notin overtaken', head'[s].execution # "not_run"
               PROVE  \E n \in Runs :
                        /\ s \in Planned(n)' /\ PlannedVersion(n, s)'.content = Current(s)'.content
                        /\ \E i \in DOMAIN results'[n][s] :
                             results'[n][s][i] \notin {"not_run", "blocked"}
    BY DEF EvaluatedWasRun
  <2>1. s \notin overtaken /\ head[s].execution # "not_run" BY DEF VersionsStay
  <2> QED BY <2>1, ShownSame DEF ShownInv, PlansStay
<1> QED BY <1>1, <1>2 DEF ShownInv

LEMMA RecordShows ==
  ASSUME Inv, ShownInv, NEW n \in Runs, NEW w \in Workers, NEW outcome, NEW judged, Answers(n),
         Records(n, w, outcome, judged)
  PROVE  ShownInv'
<1> DEFINE s == worker[n][w].entry
           j == Len(results[n][s]) + 1
<1>0. RunsInv /\ outcome \in Outcome /\ record(n, w, outcome, judged) /\ Busy(worker[n][w])
  BY DEF Records, Inv
<1>1. /\ run' = run
      /\ \A m \in Runs : \A t \in Scenarios :
           IF m = n /\ t = s
           THEN /\ DOMAIN results'[m][t] = DOMAIN results[m][t] \cup {j}
                /\ j \notin DOMAIN results[m][t]
                /\ \A i \in DOMAIN results[m][t] : results'[m][t][i] = results[m][t][i]
                /\ results'[m][t][j] = outcome
           ELSE results'[m][t] = results[m][t]
  <2>1. run' = run /\ Appended(n, w, outcome) BY <1>0, ResultAppended
  <2> QED BY <2>1 DEF Appended
<1>2. UNCHANGED <<versions, overtaken>>
      /\ \/ outcome \in {"not_run", "blocked"} /\ head' = head
         \/ /\ outcome \notin {"not_run", "blocked"}
            /\ \E e \in {"executed", "evaluated"} : head' = [head EXCEPT ![s].execution = e]
  BY <1>0 DEF record
<1>3. Holds(run[n], worker[n], s) BY <1>0 DEF Holds
<1> HIDE DEF s, j
<1>4. /\ \A t \in Scenarios : head'[t].version = head[t].version
      /\ \A t \in Scenarios : t # s \/ outcome \in {"not_run", "blocked"} =>
           head'[t].execution = head[t].execution
  <2>1. CASE head' = head BY <2>1
  <2>2. ASSUME NEW e \in {"executed", "evaluated"}, head' = [head EXCEPT ![s].execution = e],
               outcome \notin {"not_run", "blocked"}
        PROVE  /\ \A t \in Scenarios : head'[t].version = head[t].version
               /\ \A t \in Scenarios : t # s \/ outcome \in {"not_run", "blocked"} =>
                    head'[t].execution = head[t].execution
    BY <2>2 DEF Inv, ScenariosTypeOK
  <2> QED BY <1>2, <2>1, <2>2
<1>5. VersionsStay BY <1>2, <1>4 DEF VersionsStay
<1>6. PlansStay BY <1>1 DEF PlansStay
<1>7. HoldsLess BY AnswersLess
<1>8. \A m \in Runs : \A t \in Scenarios :
        /\ DOMAIN results[m][t] \subseteq DOMAIN results'[m][t]
        /\ \A i \in DOMAIN results[m][t] : results'[m][t][i] = results[m][t][i]
  BY <1>1
<1>9. HeldInv' BY <1>5, <1>6, <1>7, HeldFrame DEF ShownInv
<1>10. EvaluatedWasRun'
  <2> SUFFICES ASSUME NEW t \in Scenarios, t \notin overtaken', head'[t].execution # "not_run"
               PROVE  \E m \in Runs :
                        /\ t \in Planned(m)' /\ PlannedVersion(m, t)'.content = Current(t)'.content
                        /\ \E i \in DOMAIN results'[m][t] :
                             results'[m][t][i] \notin {"not_run", "blocked"}
    BY DEF EvaluatedWasRun
  <2>1. t \notin overtaken BY <1>5 DEF VersionsStay
  <2>2. CASE t # s \/ outcome \in {"not_run", "blocked"}
    <3>1. head[t].execution # "not_run" BY <1>4, <2>2
    <3> QED BY <1>5, <1>6, <1>8, <2>1, <3>1, ShownSame DEF ShownInv, PlansStay
  <2>3. CASE t = s /\ outcome \notin {"not_run", "blocked"}
    <3>1. run[n].plan[t] # 0 /\ PlannedVersion(n, t).content = Current(t).content
      BY <1>3, <2>1, <2>3 DEF ShownInv, HeldInv
    <3>2. t \in Planned(n)' BY <1>1, <3>1 DEF Planned
    <3>3. PlannedVersion(n, t)'.content = Current(t)'.content
      BY <1>1, <1>5, <3>1 DEF PlannedVersion, Current, VersionsStay
    <3>4. j \in DOMAIN results'[n][t] /\ results'[n][t][j] = outcome BY <1>1, <2>3
    <3> QED BY <2>3, <3>2, <3>3, <3>4
  <2> QED BY <2>2, <2>3
<1> QED BY <1>9, <1>10 DEF ShownInv

LEMMA ChangeKeepsShown ==
  ASSUME Inv, ShownInv, ScenarioChanges
  PROVE  ShownInv'
<1>1. Grows BY ScenariosKeep DEF ScenarioChanges, Inv
<1>2. /\ run' = run /\ worker' = worker /\ results' = results
      /\ overtaken \subseteq overtaken'
      /\ \A s \in Scenarios : (\E n \in Runs : Held(n, s)) /\ s \notin overtaken' =>
           versions'[s][head'[s].version].content = versions[s][head[s].version].content
  <2>1. run' = run /\ worker' = worker /\ results' = results BY DEF ScenarioChanges, runVars
  <2>2. overtaken' = overtaken \cup
          { s \in Scenarios :
              /\ \E n \in Runs : Held(n, s)
              /\ versions'[s][head'[s].version].content # versions[s][head[s].version].content }
    BY DEF ScenarioChanges, Current
  <2> QED BY <2>1, <2>2
<1>3. HeldInv'
  <2> SUFFICES ASSUME NEW n \in Runs, NEW s \in Scenarios, Holds(run[n], worker[n], s)
               PROVE  /\ run[n].plan[s] # 0
                      /\ s \notin overtaken' =>
                           versions'[s][run[n].plan[s]].content
                             = versions'[s][head'[s].version].content
    BY <1>2 DEF HeldInv, PlannedVersion, Current, Holds
  <2>1. /\ run[n].plan[s] # 0
        /\ s \notin overtaken =>
             versions[s][run[n].plan[s]].content = versions[s][head[s].version].content
    BY DEF ShownInv, HeldInv, PlannedVersion, Current
  <2>2. versions'[s][run[n].plan[s]].content = versions[s][run[n].plan[s]].content
    BY <1>1, <2>1 DEF Inv, PlanInv, Grows
  <2>3. Held(n, s)
    <3>1. run[n].queue \in Seq(Scenarios) BY RowOf DEF RunRecord, Inv
    <3>2. DOMAIN run[n].queue = 1..Len(run[n].queue) BY <3>1
    <3> QED BY <3>2 DEF Held, Holds, Busy
  <2> QED BY <1>2, <2>1, <2>2, <2>3
<1>4. EvaluatedWasRun'
  <2> SUFFICES ASSUME NEW s \in Scenarios, s \notin overtaken', head'[s].execution # "not_run"
               PROVE  \E n \in Runs :
                        /\ s \in Planned(n)' /\ PlannedVersion(n, s)'.content = Current(s)'.content
                        /\ \E i \in DOMAIN results'[n][s] :
                             results'[n][s][i] \notin {"not_run", "blocked"}
    BY DEF EvaluatedWasRun
  <2>1. /\ head'[s].execution = head[s].execution
        /\ versions'[s][head'[s].version].content = versions[s][head[s].version].content
    BY ChangeShows DEF ScenarioChanges, Inv, ShownOrReset
  <2>2. \A v \in 1..Len(versions[s]) : versions'[s][v].content = versions[s][v].content
    BY <1>1 DEF Grows
  <2>3. s \notin overtaken /\ head[s].execution # "not_run" BY <1>2, <2>1
  <2>4. /\ \A n \in Runs : results[n][s] # <<>> => run'[n].plan = run[n].plan
        /\ \A n \in Runs : /\ DOMAIN results[n][s] \subseteq DOMAIN results'[n][s]
                           /\ \A i \in DOMAIN results[n][s] : results'[n][s][i] = results[n][s][i]
    BY <1>2
  <2> QED BY <2>1, <2>2, <2>3, <2>4, ShownFrame DEF ShownInv
<1> QED BY <1>3, <1>4 DEF ShownInv

LEMMA StartShows ==
  ASSUME Inv, ShownInv, NEW n \in Runs, NEW k \in Nat, NEW queue \in [1..k -> Scenarios],
         startRun(n, queue)
  PROVE  ShownInv'
<1> DEFINE items == { queue[i] : i \in DOMAIN queue }
           plan == [s \in Scenarios |-> IF s \in items THEN head[s].version ELSE 0]
           r == [NoRun EXCEPT !.status = "in-progress", !.phase = "working", !.queue = queue,
                              !.plan = plan, !.reserve = cleanupRequests(items)]
           wk == [w \in Workers |-> IF w <= Len(queue) THEN [Out EXCEPT !.at = "next"] ELSE Out]
<1>0. RunsInv BY DEF Inv
<1>1. /\ results' = results /\ versions' = versions /\ head' = head /\ overtaken' = overtaken
      /\ \A s \in Scenarios : results[n][s] = <<>>
      /\ \A m \in Runs : m # n => run'[m] = run[m] /\ worker'[m] = worker[m]
  BY <1>0, StartsEmpty DEF scenarioVars
<1>2. run'[n] = r /\ worker'[n] = wk BY <1>0 DEF startRun, RunsInv
<1>3. r.queue = queue /\ r.plan = plan BY DEF NoRun
<1>4. queue \in Seq(Scenarios) /\ \A i \in 1..Len(queue) : queue[i] \in items OBVIOUS
<1>5. \A w \in Workers : ~Busy(wk[w]) BY DEF Busy, Out
<1>6. \A s \in items : s \in Scenarios /\ plan[s] = head[s].version /\ head[s].version # 0
  BY DEF startRun, Runnable, Exists
<1> HIDE DEF r, wk, plan, items
<1>7. HeldInv'
  <2> SUFFICES ASSUME NEW m \in Runs, NEW s \in Scenarios, Holds(run'[m], worker'[m], s)
               PROVE  /\ run'[m].plan[s] # 0
                      /\ s \notin overtaken =>
                           versions[s][run'[m].plan[s]].content = versions[s][head[s].version].content
    BY <1>1 DEF HeldInv, PlannedVersion, Current
  <2>1. CASE m # n
    <3>1. run'[m] = run[m] /\ worker'[m] = worker[m] BY <1>1, <2>1
    <3>2. Holds(run[m], worker[m], s) BY <3>1
    <3>3. /\ run[m].plan[s] # 0
          /\ s \notin overtaken =>
               versions[s][run[m].plan[s]].content = versions[s][head[s].version].content
      BY <3>2 DEF ShownInv, HeldInv, PlannedVersion, Current
    <3> QED BY <3>1, <3>3
  <2>2. CASE m = n
    <3>1. Holds(r, wk, s) BY <1>2, <2>2
    <3>2. \E i \in 1..Len(queue) : queue[i] = s BY <1>3, <1>5, <3>1 DEF Holds
    <3>3. s \in items BY <1>4, <3>2
    <3> QED BY <1>2, <1>3, <1>6, <2>2, <3>3
  <2> QED BY <2>1, <2>2
<1>8. EvaluatedWasRun'
  <2> SUFFICES ASSUME NEW s \in Scenarios, s \notin overtaken', head'[s].execution # "not_run"
               PROVE  \E m \in Runs :
                        /\ s \in Planned(m)' /\ PlannedVersion(m, s)'.content = Current(s)'.content
                        /\ \E i \in DOMAIN results'[m][s] :
                             results'[m][s][i] \notin {"not_run", "blocked"}
    BY DEF EvaluatedWasRun
  <2>1. VersionsStay BY <1>1 DEF VersionsStay
  <2>2. \A m \in Runs : \A t \in Scenarios : results[m][t] # <<>> => run'[m].plan = run[m].plan
    BY <1>1
  <2>3. \A m \in Runs : \A t \in Scenarios :
          /\ DOMAIN results[m][t] \subseteq DOMAIN results'[m][t]
          /\ \A i \in DOMAIN results[m][t] : results'[m][t][i] = results[m][t][i]
    BY <1>1
  <2>4. s \notin overtaken /\ head[s].execution # "not_run" BY <1>1
  <2> QED BY <2>1, <2>2, <2>3, <2>4, ShownSame DEF ShownInv
<1> QED BY <1>7, <1>8 DEF ShownInv

LEMMA ShownStep ==
  ASSUME Inv, ShownInv, [Next]_vars
  PROVE  ShownInv'
<1>0. RunsInv /\ worker \in [Runs -> [Workers -> WorkerRecord]] /\ run \in [Runs -> RunRecord]
  BY DEF Inv, RunsInv
<1>1. CASE ScenarioChanges BY <1>1, ChangeKeepsShown
<1>2. ASSUME NEW n \in Runs, NEW k \in 1..Cardinality(Scenarios),
             NEW queue \in [1..k -> Scenarios], startRun(n, queue)
      PROVE  ShownInv'
  <2>1. k \in Nat OBVIOUS
  <2> QED BY <1>2, <2>1, StartShows
<1>3. ASSUME UNCHANGED <<versions, head, results, overtaken>>, PlansStay, HoldsLess
      PROVE  ShownInv'
  <2>1. VersionsStay BY <1>3 DEF VersionsStay
  <2>2. \A s \in Scenarios : head'[s].execution = head[s].execution BY <1>3
  <2>3. \A n \in Runs : \A s \in Scenarios :
          /\ DOMAIN results[n][s] \subseteq DOMAIN results'[n][s]
          /\ \A i \in DOMAIN results[n][s] : results'[n][s][i] = results[n][s][i]
    BY <1>3
  <2> QED BY <1>3, <2>1, <2>2, <2>3, ShownKept
<1>4. ASSUME NEW n \in Runs, cancelRun(n) PROVE ShownInv'
  <2>1. PlansStay BY <1>0, <1>4, RowSteps, MovesKeeps DEF PlansStay
  <2>2. UNCHANGED <<versions, head, results, overtaken, worker>>
    BY <1>4 DEF cancelRun, scenarioVars
  <2>3. \A m \in Runs : run'[m].queue = run[m].queue BY <1>0, <1>4 DEF cancelRun, RunRecord
  <2>4. HoldsLess BY <1>0, <2>2, <2>3, HoldsLessOf
  <2> QED BY <1>3, <2>1, <2>2, <2>4
<1>5. ASSUME NEW n \in Runs, Answers(n) PROVE ShownInv'
  <2>1. CASE Silent(n)
    <3>1. PlansStay /\ UNCHANGED <<versions, head, results, overtaken>>
      BY <2>1 DEF Silent, scenarioVars
    <3> QED BY <1>3, <1>5, <3>1, AnswersLess
  <2>2. CASE PoolEnds(n)
    <3>1. /\ PlansStay
          /\ \A m \in Runs : \A t \in Scenarios :
               \/ results'[m][t] = results[m][t]
               \/ results[m][t] = <<>> /\ results'[m][t] = <<"not_run">>
      BY <1>0, <2>2, PoolEndsResults
    <3>2. versions' = versions /\ head' = head /\ overtaken' = overtaken
      BY <2>2 DEF PoolEnds, scenarioVars
    <3>3. VersionsStay /\ \A s \in Scenarios : head'[s].execution = head[s].execution
      BY <3>2 DEF VersionsStay
    <3>4. \A m \in Runs : \A t \in Scenarios :
            /\ DOMAIN results[m][t] \subseteq DOMAIN results'[m][t]
            /\ \A i \in DOMAIN results[m][t] : results'[m][t][i] = results[m][t][i]
      BY <3>1
    <3> QED BY <1>5, <3>1, <3>3, <3>4, AnswersLess, ShownKept
  <2>3. ASSUME NEW w \in Workers, NEW outcome, NEW judged, Records(n, w, outcome, judged)
        PROVE  ShownInv'
    BY <1>5, <2>3, RecordShows
  <2> QED BY <1>5, <2>1, <2>2, <2>3, AnswersRecord
<1>6. ASSUME UNCHANGED <<scenarioVars, runVars, overtaken>> PROVE ShownInv'
  <2>1. run' = run /\ worker' = worker /\ UNCHANGED <<versions, head, results, overtaken>>
    BY <1>6 DEF scenarioVars, runVars
  <2>2. PlansStay /\ HoldsLess BY <2>1 DEF PlansStay, HoldsLess
  <2> QED BY <1>3, <2>1, <2>2
<1>7. ASSUME NEW s, NEW v, NEW status,
             updateFinding(s, v, status) \/ acknowledgeOccurrences(s, v)
      PROVE  ShownInv'
  BY <1>6, <1>7 DEF updateFinding, acknowledgeOccurrences
<1>8. CASE Restart
  <2>1. PlansStay BY <1>0, <1>8, RestartKeeps DEF PlansStay
  <2>2. UNCHANGED <<versions, head, results, overtaken>> BY <1>8 DEF Restart
  <2>3. \A m \in Runs : \A w \in Workers : worker'[m][w] = Out BY <1>8 DEF Restart
  <2>4. HoldsLess BY <2>3, OutTyped DEF HoldsLess, Holds
  <2> QED BY <1>3, <2>1, <2>2, <2>4
<1>9. CASE UNCHANGED vars BY <1>6, <1>9 DEF vars
<1> QED BY <1>1, <1>2, <1>4, <1>5, <1>7, <1>8, <1>9 DEF Next

\* A scenario shown as executed or evaluated had its current content sent by some run, which got an
\* answer to judge or to record, unless another version overtook a run that held it (updateStatus,
\* runSecurityRun.ts; editScenario, scenarioService.ts).
THEOREM ShownMeansSent == Spec => []EvaluatedWasRun
<1>1. Init => ShownInv
  <2> SUFFICES ASSUME Init PROVE ShownInv OBVIOUS
  <2>1. \A s \in Scenarios : head[s].execution = "not_run" BY DEF Init, ScenariosInit, Absent
  <2>2. \A n \in Runs : \A w \in Workers : worker[n][w] = Out BY DEF Init
  <2> QED BY <2>1, <2>2, OutTyped DEF ShownInv, HeldInv, EvaluatedWasRun, Holds
<1>2. Inv /\ ShownInv /\ [Next]_vars => ShownInv' BY ShownStep
<1>3. ShownInv => EvaluatedWasRun BY DEF ShownInv
<1> QED BY <1>1, <1>2, <1>3, SpecInv, PTL DEF Spec
=============================================================================
