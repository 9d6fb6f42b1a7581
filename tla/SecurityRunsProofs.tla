-------------------------- MODULE SecurityRunsProofs --------------------------
(***************************************************************************)
(* Proofs about the runs of the API Security Lab, for any scenarios,       *)
(* versions, limits, number of workers and number of runs: the budget, the *)
(* approval of whatever is run, and one result per planned scenario.       *)
(***************************************************************************)
EXTENDS SecurityRuns, FiniteSetTheorems, TLAPS

RunRecord ==
  [status : {"none", "in-progress", "completed", "cancelled", "failed"},
   phase : {"none", "working", "cleanup", "deleting", "over", "lost"},
   end : {"none", "completed", "cancelled", "failed"},
   aborted : BOOLEAN, threw : BOOLEAN, plan : [Scenarios -> Nat],
   queue : Seq(Scenarios), reserve : Nat, spent : Nat, created : Nat]

\* A run within its budget. While a delete is under way its resource is still counted, and a run
\* past its workers knows how it ends.
Sound(r) ==
  /\ r \in RunRecord
  /\ r.spent <= MaxRequests
  /\ r.phase = "working" => r.spent <= MaxRequests - r.reserve
  /\ r.phase = "deleting" => r.created > 0
  /\ r.phase \in {"cleanup", "deleting"} => r.end # "none"

WorkerRecord == [at : {"out", "next", "attempt", "sending"}, entry : Scenarios \cup {"none"},
                 done : Nat]
Busy(k) == k.at \in {"attempt", "sending"}

\* Until a worker throws, a planned scenario is in one place: in the queue, with one worker, or
\* among the results. A run that is past its workers has them all among the results.
InOnePlace(r, wk, res) ==
  /\ \A i, j \in 1..Len(r.queue) : r.queue[i] = r.queue[j] => i = j
  /\ \A i \in 1..Len(r.queue) :
       /\ r.plan[r.queue[i]] # 0 /\ res[r.queue[i]] = <<>>
       /\ \A w \in Workers : Busy(wk[w]) => wk[w].entry # r.queue[i]
  /\ \A w \in Workers : Busy(wk[w]) =>
       wk[w].entry \in Scenarios /\ r.plan[wk[w].entry] # 0 /\ res[wk[w].entry] = <<>>
  /\ \A u, w \in Workers : Busy(wk[u]) /\ Busy(wk[w]) /\ wk[u].entry = wk[w].entry => u = w
  /\ \A s \in Scenarios : res[s] # <<>> => Len(res[s]) = 1 /\ r.plan[s] # 0

ResultsOK(r, wk, res) ==
  /\ r.status = "none" => /\ r.phase = "none" /\ ~r.threw
                          /\ \A s \in Scenarios : res[s] = <<>>
  /\ ~r.threw /\ r.phase # "working" => \A w \in Workers : wk[w].at = "out"
  /\ ~r.threw /\ r.phase = "working" => InOnePlace(r, wk, res)
  /\ ~r.threw /\ r.phase \in {"cleanup", "deleting", "over"} =>
       \A s \in Scenarios : Len(res[s]) = IF r.plan[s] # 0 THEN 1 ELSE 0

RunOK(r, wk, res) ==
  /\ Sound(r) /\ wk \in [Workers -> WorkerRecord] /\ res \in [Scenarios -> Seq(Outcome)]
  /\ ResultsOK(r, wk, res)

RunsInv ==
  /\ run \in [Runs -> RunRecord]
  /\ worker \in [Runs -> [Workers -> WorkerRecord]]
  /\ results \in [Runs -> [Scenarios -> Seq(Outcome)]]
  /\ \A n \in Runs : RunOK(run[n], worker[n], results[n])

\* Some reviewer approved this content for the scenario, and for this operation unless an edit
\* of its wording moved the approval.
WasReviewed(s, x) ==
  /\ \E b \in Bases : <<s, x.content, b>> \in reviewed
  /\ s \notin repointed => <<s, x.content, x.basis>> \in reviewed

ApprovalInv ==
  \A s \in Scenarios : \A v \in 1..Len(versions[s]) :
    versions[s][v].approved => WasReviewed(s, versions[s][v])

PlanInv ==
  \A n \in Runs : \A s \in Scenarios : run[n].plan[s] # 0 =>
    /\ run[n].plan[s] \in 1..Len(versions[s])
    /\ WasReviewed(s, versions[s][run[n].plan[s]])

(* ------------------------- the scenarios and reviews ------------------- *)

LEMMA SeqExcept ==
  ASSUME NEW S, NEW q \in Seq(S), NEW i \in 1..Len(q), NEW x \in S
  PROVE  /\ [q EXCEPT ![i] = x] \in Seq(S) /\ Len([q EXCEPT ![i] = x]) = Len(q)
         /\ \A j \in 1..Len(q) : [q EXCEPT ![i] = x][j] = IF j = i THEN x ELSE q[j]
OBVIOUS

LEMMA SeqAppend ==
  ASSUME NEW S, NEW q \in Seq(S), NEW x \in S
  PROVE  /\ Append(q, x) \in Seq(S) /\ Len(Append(q, x)) = Len(q) + 1
         /\ \A j \in 1..Len(q) : Append(q, x)[j] = q[j]
         /\ Append(q, x)[Len(q) + 1] = x
OBVIOUS

LEMMA CurrentTyped ==
  ASSUME ScenariosTypeOK, NEW s \in Scenarios, Exists(s)
  PROVE  Current(s) \in Version /\ head[s].version \in 1..Len(versions[s])
BY DEF ScenariosTypeOK, Exists, Current

\* Versions are only added, and keep their content and their operation.
Grows ==
  /\ \A s \in Scenarios : \A v \in 1..Len(versions[s]) :
       /\ v \in 1..Len(versions'[s])
       /\ versions'[s][v].content = versions[s][v].content
       /\ versions'[s][v].basis = versions[s][v].basis
  /\ reviewed \subseteq reviewed' /\ repointed \subseteq repointed'

LEMMA ReviewedStays ==
  ASSUME Grows, ScenariosTypeOK, NEW s \in Scenarios, NEW v \in 1..Len(versions[s]),
         WasReviewed(s, versions[s][v])
  PROVE  WasReviewed(s, versions[s][v])'
BY DEF Grows, WasReviewed

LEMMA InsertKeeps ==
  ASSUME ScenariosTypeOK, ApprovalInv, NEW s \in Scenarios, NEW x \in Version,
         NEW review \in ReviewState, NEW execution \in {"not_run", "executed", "evaluated"},
         insertVersion(s, x, review, execution), UNCHANGED <<loaded, reviewed>>,
         repointed \subseteq repointed', repointed' \subseteq Scenarios,
         x.approved => WasReviewed(s, x)'
  PROVE  ScenariosTypeOK' /\ ApprovalInv' /\ Grows
<1>1. /\ versions' = [versions EXCEPT ![s] = Append(versions[s], x)]
      /\ versions[s] \in Seq(Version) /\ Len(versions[s]) = head[s].version
      /\ head[s].version \in Nat
  BY DEF insertVersion, ScenariosTypeOK
<1>2. /\ Append(versions[s], x) \in Seq(Version)
      /\ Len(Append(versions[s], x)) = Len(versions[s]) + 1
      /\ \A j \in 1..Len(versions[s]) : Append(versions[s], x)[j] = versions[s][j]
      /\ Append(versions[s], x)[Len(versions[s]) + 1] = x
  BY <1>1, SeqAppend
<1>3. /\ versions' \in [Scenarios -> Seq(Version)] /\ versions'[s] = Append(versions[s], x)
      /\ \A t \in Scenarios : t # s => versions'[t] = versions[t]
  BY <1>1, <1>2 DEF ScenariosTypeOK
<1>4. /\ head' = [head EXCEPT ![s] = [version |-> head[s].version + 1, review |-> review,
                                      execution |-> execution]]
      /\ head' \in [Scenarios -> [version : Nat, review : ReviewState,
                                  execution : {"not_run", "executed", "evaluated"}]]
      /\ head'[s].version = head[s].version + 1
      /\ \A t \in Scenarios : t # s => head'[t] = head[t]
  BY <1>1 DEF insertVersion, ScenariosTypeOK
<1>5. ScenariosTypeOK'
  <2>1. \A t \in Scenarios : Len(versions'[t]) = head'[t].version
    BY <1>1, <1>2, <1>3, <1>4 DEF ScenariosTypeOK
  <2> QED BY <1>3, <1>4, <2>1 DEF ScenariosTypeOK
<1>6. Grows BY <1>1, <1>2, <1>3 DEF Grows
<1>7. ApprovalInv'
  <2> SUFFICES ASSUME NEW t \in Scenarios, NEW v \in 1..Len(versions'[t]),
                      versions'[t][v].approved
               PROVE  WasReviewed(t, versions[t][v])'
    BY DEF ApprovalInv
  <2>1. CASE t = s /\ v = Len(versions[s]) + 1 BY <1>2, <1>3, <2>1
  <2>2. CASE ~(t = s /\ v = Len(versions[s]) + 1)
    <3>1. v \in 1..Len(versions[t]) /\ versions'[t][v] = versions[t][v]
      BY <1>1, <1>2, <1>3, <2>2
    <3> QED BY <1>6, <3>1, ReviewedStays DEF ApprovalInv
  <2> QED BY <2>1, <2>2
<1> QED BY <1>5, <1>6, <1>7

LEMMA GenerateKeeps ==
  ASSUME ScenariosTypeOK, ApprovalInv, NEW s \in Scenarios, generateScenario(s)
  PROVE  ScenariosTypeOK' /\ ApprovalInv' /\ Grows
<1> DEFINE x == [content |-> Generated[loaded], basis |-> loaded, author |-> "generator",
                 approved |-> FALSE]
           review == IF head[s].review \in {"draft", "rejected"} THEN head[s].review ELSE "in_review"
<1>1. loaded \in Bases BY DEF generateScenario, ScenariosTypeOK
<1>2. x \in Version /\ ~x.approved BY <1>1, ScenariosAssumption DEF Version
<1>3. review \in ReviewState BY DEF ReviewState
<1>4. insertVersion(s, x, review, "not_run") /\ UNCHANGED <<loaded, reviewed, repointed>>
  BY DEF generateScenario
<1>5. repointed \subseteq Scenarios BY DEF ScenariosTypeOK
<1> HIDE DEF x, review
<1> QED BY <1>2, <1>3, <1>4, <1>5, InsertKeeps

LEMMA EditKeeps ==
  ASSUME ScenariosTypeOK, ApprovalInv, NEW s \in Scenarios, NEW content \in Contents,
         editScenario(s, content)
  PROVE  ScenariosTypeOK' /\ ApprovalInv' /\ Grows
<1> DEFINE material == content # Current(s).content
           x == [content |-> content, author |-> "user",
                 basis |-> IF loaded = "none" THEN Current(s).basis ELSE loaded,
                 approved |-> ~material /\ Current(s).approved]
           review == IF material /\ head[s].review = "approved" THEN "in_review" ELSE head[s].review
           execution == IF material THEN "not_run" ELSE head[s].execution
<1>1. Current(s) \in Version /\ head[s].version \in 1..Len(versions[s])
  BY CurrentTyped DEF editScenario
<1>2. x \in Version BY <1>1 DEF Version, ScenariosTypeOK
<1>3. review \in ReviewState /\ execution \in {"not_run", "executed", "evaluated"}
  BY DEF ReviewState, ScenariosTypeOK
<1>4. /\ insertVersion(s, x, review, execution) /\ UNCHANGED <<loaded, reviewed>>
      /\ repointed' = repointed \cup
           (IF x.approved /\ x.basis # Current(s).basis THEN {s} ELSE {})
  BY DEF editScenario
<1>5. repointed \subseteq repointed' /\ repointed' \subseteq Scenarios
  BY <1>4 DEF ScenariosTypeOK
<1>6. x.approved => x.content = Current(s).content /\ Current(s).approved OBVIOUS
<1>7. Current(s).approved => WasReviewed(s, Current(s)) BY <1>1 DEF ApprovalInv, Current
<1>8. x.approved /\ s \notin repointed' => x.basis = Current(s).basis BY <1>4
<1>9. UNCHANGED reviewed BY <1>4
<1> HIDE DEF x, review, execution, material
<1>10. ASSUME x.approved
       PROVE  /\ \E b \in Bases : <<s, x.content, b>> \in reviewed'
              /\ s \notin repointed' => <<s, x.content, x.basis>> \in reviewed'
  BY <1>5, <1>6, <1>7, <1>8, <1>9, <1>10 DEF WasReviewed
<1>11. PICK y \in Version : y = x BY <1>2
<1>12. y.approved => WasReviewed(s, y)' BY <1>10, <1>11 DEF WasReviewed
<1> QED BY <1>3, <1>4, <1>5, <1>11, <1>12, InsertKeeps

LEMMA ReviewKeeps ==
  ASSUME ScenariosTypeOK, ApprovalInv, NEW s \in Scenarios, NEW action \in ReviewAction,
         reviewOne(s, action)
  PROVE  ScenariosTypeOK' /\ ApprovalInv' /\ Grows
<1> DEFINE v == head[s].version
<1>1. Current(s) \in Version /\ v \in 1..Len(versions[s]) /\ versions[s] \in Seq(Version)
      /\ Current(s) = versions[s][v]
  BY CurrentTyped DEF reviewOne, ScenariosTypeOK, Current
<1>2. TRANSITIONS[head[s].review][action] \in ReviewState
  <2>1. head[s].review \in ReviewState BY DEF ScenariosTypeOK
  <2>2. action \in DOMAIN TRANSITIONS[head[s].review] BY DEF reviewOne
  <2> QED BY <2>1, <2>2 DEF ReviewState, ReviewAction, TRANSITIONS
<1>3. /\ head' = [head EXCEPT ![s].review = TRANSITIONS[head[s].review][action]]
      /\ UNCHANGED <<loaded, repointed>>
  BY DEF reviewOne
<1>4. /\ head' \in [Scenarios -> [version : Nat, review : ReviewState,
                                  execution : {"not_run", "executed", "evaluated"}]]
      /\ \A t \in Scenarios : head'[t].version = head[t].version
  BY <1>2, <1>3 DEF ScenariosTypeOK
<1>5. /\ reviewed \subseteq reviewed' /\ reviewed' \subseteq Scenarios \X Contents \X Bases
      /\ action = "approve" => <<s, Current(s).content, Current(s).basis>> \in reviewed'
  BY <1>1 DEF reviewOne, ScenariosTypeOK, Version
<1> DEFINE x == [versions[s][v] EXCEPT !.approved = (action = "approve")]
<1>6. /\ x \in Version /\ x.content = Current(s).content /\ x.basis = Current(s).basis
      /\ x.approved = (action = "approve")
  BY <1>1 DEF Version
<1>7. UNCHANGED versions \/ versions' = [versions EXCEPT ![s] = [versions[s] EXCEPT ![v] = x]]
  BY DEF reviewOne, setApproval
<1> HIDE DEF x, v
<1>8. /\ [versions[s] EXCEPT ![v] = x] \in Seq(Version)
      /\ Len([versions[s] EXCEPT ![v] = x]) = Len(versions[s])
      /\ \A j \in 1..Len(versions[s]) :
           [versions[s] EXCEPT ![v] = x][j] = IF j = v THEN x ELSE versions[s][j]
  BY <1>1, <1>6, SeqExcept
<1>9. /\ versions' \in [Scenarios -> Seq(Version)]
      /\ \A t \in Scenarios : Len(versions'[t]) = Len(versions[t])
      /\ \A t \in Scenarios : \A j \in 1..Len(versions[t]) :
           \/ versions'[t][j] = versions[t][j]
           \/ t = s /\ j = v /\ versions'[t][j] = x
  <2>1. CASE UNCHANGED versions BY <2>1 DEF ScenariosTypeOK
  <2>2. CASE versions' = [versions EXCEPT ![s] = [versions[s] EXCEPT ![v] = x]]
    <3>1. /\ versions'[s] = [versions[s] EXCEPT ![v] = x]
          /\ \A t \in Scenarios : t # s => versions'[t] = versions[t]
          /\ versions' \in [Scenarios -> Seq(Version)]
      BY <1>8, <2>2 DEF ScenariosTypeOK
    <3> QED BY <1>8, <3>1
  <2> QED BY <1>7, <2>1, <2>2
<1>10. ScenariosTypeOK' BY <1>3, <1>4, <1>5, <1>9 DEF ScenariosTypeOK
<1>11. Grows BY <1>1, <1>3, <1>5, <1>6, <1>9 DEF Grows
<1>12. ApprovalInv'
  <2> SUFFICES ASSUME NEW t \in Scenarios, NEW j \in 1..Len(versions'[t]),
                      versions'[t][j].approved
               PROVE  WasReviewed(t, versions[t][j])'
    BY DEF ApprovalInv
  <2>0. j \in 1..Len(versions[t]) BY <1>9
  <2>1. CASE versions'[t][j] = versions[t][j]
    BY <1>11, <2>0, <2>1, ReviewedStays DEF ApprovalInv
  <2>2. CASE t = s /\ j = v /\ versions'[t][j] = x
    <3>1. action = "approve" BY <1>6, <2>2
    <3>2. /\ <<s, x.content, x.basis>> \in reviewed' /\ x.basis \in Bases
      BY <1>5, <1>6, <3>1 DEF Version
    <3> QED BY <2>2, <3>2 DEF WasReviewed
  <2> QED BY <1>9, <2>0, <2>1, <2>2
<1> QED BY <1>10, <1>11, <1>12

LEMMA ScenariosKeep ==
  ASSUME ScenariosTypeOK, ApprovalInv, ScenariosNext
  PROVE  ScenariosTypeOK' /\ ApprovalInv' /\ Grows
<1>1. ASSUME NEW b \in Bases \cup {"none"}, LoadSpecification(b)
      PROVE  ScenariosTypeOK' /\ ApprovalInv' /\ Grows
  BY <1>1 DEF LoadSpecification, ScenariosTypeOK, ApprovalInv, WasReviewed, Grows
<1> QED BY <1>1, GenerateKeeps, EditKeeps, ReviewKeeps DEF ScenariosNext

(* ------------------------------- the runs ------------------------------ *)

\* A step that concerns one run.
StepOf(n, r, wk, res) ==
  /\ run' = [run EXCEPT ![n] = r]
  /\ worker' = [worker EXCEPT ![n] = wk]
  /\ results' = [results EXCEPT ![n] = res]

Moves(n) ==
  \E r, wk, res : RunOK(r, wk, res) /\ r.plan = run[n].plan /\ StepOf(n, r, wk, res)

LEMMA StepKeeps ==
  ASSUME RunsInv, NEW n \in Runs, NEW r, NEW wk, NEW res, RunOK(r, wk, res), StepOf(n, r, wk, res)
  PROVE  RunsInv' /\ run'[n] = r /\ \A m \in Runs : m # n => run'[m] = run[m]
<1>1. /\ run' \in [Runs -> RunRecord] /\ run'[n] = r /\ \A m \in Runs : m # n => run'[m] = run[m]
      /\ worker' \in [Runs -> [Workers -> WorkerRecord]] /\ worker'[n] = wk
      /\ \A m \in Runs : m # n => worker'[m] = worker[m]
      /\ results' \in [Runs -> [Scenarios -> Seq(Outcome)]] /\ results'[n] = res
      /\ \A m \in Runs : m # n => results'[m] = results[m]
  BY DEF RunsInv, RunOK, Sound, StepOf
<1>2. \A m \in Runs : RunOK(run'[m], worker'[m], results'[m])
  BY <1>1 DEF RunsInv
<1>3. RunsInv' BY <1>1, <1>2 DEF RunsInv, RunOK, Sound, ResultsOK, InOnePlace
<1> QED BY <1>1, <1>3

\* The result of an attempt, whatever it is.
LEMMA RecordMoves ==
  ASSUME RunsInv, NEW n \in Runs, NEW w \in Workers, Busy(worker[n][w]),
         NEW outcome \in Outcome, NEW judged \in BOOLEAN, record(n, w, outcome, judged)
  PROVE  Moves(n)
<1> DEFINE r == run[n]
           s == worker[n][w].entry
           out == [Out EXCEPT !.at = "next"]
           wk == [worker[n] EXCEPT ![w] = out]
           res == [results[n] EXCEPT ![s] = Append(results[n][s], outcome)]
<1>0. /\ r \in RunRecord /\ worker[n] \in [Workers -> WorkerRecord]
      /\ results[n] \in [Scenarios -> Seq(Outcome)] /\ RunOK(r, worker[n], results[n])
  BY DEF RunsInv
<1>1. StepOf(n, r, wk, res) BY DEF record, StepOf, RunsInv
<1>2. out \in WorkerRecord /\ out.at = "next" BY DEF Out, WorkerRecord
<1>3. /\ wk \in [Workers -> WorkerRecord] /\ wk[w] = out /\ ~Busy(out)
      /\ \A u \in Workers : u # w => wk[u] = worker[n][u]
  BY <1>0, <1>2 DEF Busy
<1>4. res \in [Scenarios -> Seq(Outcome)] /\ \A t \in Scenarios : t # s => res[t] = results[n][t]
  <2>1. CASE s \in Scenarios
    <3>1. results[n][s] \in Seq(Outcome) BY <1>0, <2>1
    <3>2. Append(results[n][s], outcome) \in Seq(Outcome) BY <3>1, SeqAppend
    <3> QED BY <1>0, <2>1, <3>2
  <2>2. CASE s \notin Scenarios
    <3>1. res = results[n] BY <1>0, <2>2
    <3> QED BY <1>0, <3>1
  <2> QED BY <2>1, <2>2
<1>5. ASSUME ~r.threw PROVE r.phase = "working" /\ InOnePlace(r, worker[n], results[n])
  BY <1>0, <1>5 DEF RunOK, ResultsOK, Busy
<1>6. ASSUME ~r.threw
      PROVE  s \in Scenarios /\ results[n][s] = <<>> /\ r.plan[s] # 0 /\ Len(res[s]) = 1
             /\ res[s] # <<>>
  <2>1. s \in Scenarios /\ results[n][s] = <<>> /\ r.plan[s] # 0 BY <1>5, <1>6 DEF InOnePlace
  <2>2. res[s] = Append(<<>>, outcome) BY <1>0, <2>1
  <2> QED BY <2>1, <2>2
<1>7. r.status # "none" \/ r.threw BY <1>0, <1>5 DEF RunOK, ResultsOK
<1> HIDE DEF wk, res, out
<1>8. ASSUME ~r.threw PROVE InOnePlace(r, wk, res)
  <2> USE <1>8
  <2>1. \A i \in 1..Len(r.queue) : r.queue[i] # s /\ r.queue[i] \in Scenarios
    BY <1>0, <1>5 DEF InOnePlace, RunRecord
  <2>2. \A u \in Workers : Busy(wk[u]) => u # w /\ wk[u] = worker[n][u] /\ worker[n][u].entry # s
    BY <1>3, <1>5 DEF InOnePlace
  <2>3. \A t \in Scenarios : res[t] # <<>> => Len(res[t]) = 1 /\ r.plan[t] # 0
    BY <1>4, <1>5, <1>6 DEF InOnePlace
  <2>4. \A i \in 1..Len(r.queue) : res[r.queue[i]] = <<>> BY <1>4, <1>5, <2>1 DEF InOnePlace
  <2>5. \A u \in Workers : Busy(wk[u]) =>
          wk[u].entry \in Scenarios /\ r.plan[wk[u].entry] # 0 /\ res[wk[u].entry] = <<>>
    BY <1>4, <1>5, <2>2 DEF InOnePlace
  <2>6. \A u, v \in Workers : Busy(wk[u]) /\ Busy(wk[v]) /\ wk[u].entry = wk[v].entry => u = v
    BY <1>5, <2>2 DEF InOnePlace
  <2>7. \A i \in 1..Len(r.queue) : \A u \in Workers : Busy(wk[u]) => wk[u].entry # r.queue[i]
    BY <1>5, <2>2 DEF InOnePlace
  <2> QED BY <1>5, <2>3, <2>4, <2>5, <2>6, <2>7 DEF InOnePlace
<1>9. ResultsOK(r, wk, res)
  <2>1. CASE r.threw BY <1>0, <2>1 DEF ResultsOK, RunOK
  <2>2. CASE ~r.threw BY <1>5, <1>7, <1>8, <2>2 DEF ResultsOK
  <2> QED BY <2>1, <2>2 DEF RunRecord
<1>10. RunOK(r, wk, res) BY <1>0, <1>3, <1>4, <1>9 DEF RunOK
<1> QED BY <1>1, <1>10 DEF Moves

\* Something about a run changes that its results do not depend on: no worker begins anything, and
\* the run stays in its phase or is past its workers.
LEMMA PlaceFrame ==
  ASSUME NEW r, NEW q, NEW wk, NEW wq, NEW res, ResultsOK(r, wk, res),
         q.status = "none" => r.status = "none" /\ q.threw = r.threw,
         \/ q.phase = r.phase
         \/ r.phase \in {"cleanup", "deleting"} /\ q.phase \in {"cleanup", "deleting", "over"},
         q.plan = r.plan, q.queue = r.queue, r.threw => q.threw,
         \A w \in Workers : /\ Busy(wq[w]) => Busy(wk[w]) /\ wq[w].entry = wk[w].entry
                            /\ wk[w].at = "out" => wq[w].at = "out"
  PROVE  ResultsOK(q, wq, res)
<1>1. ~q.threw => ~r.threw OBVIOUS
<1>2. InOnePlace(r, wk, res) => InOnePlace(q, wq, res) BY DEF InOnePlace
<1>3. q.status = "none" => q.phase = "none" /\ ~q.threw /\ \A s \in Scenarios : res[s] = <<>>
  BY DEF ResultsOK
<1>4. ~q.threw /\ q.phase # "working" => \A w \in Workers : wq[w].at = "out" BY <1>1 DEF ResultsOK
<1>5. ~q.threw /\ q.phase = "working" => InOnePlace(q, wq, res) BY <1>1, <1>2 DEF ResultsOK
<1>6. ~q.threw /\ q.phase \in {"cleanup", "deleting", "over"} =>
        \A s \in Scenarios : Len(res[s]) = IF q.plan[s] # 0 THEN 1 ELSE 0
  BY <1>1 DEF ResultsOK
<1> QED BY <1>3, <1>4, <1>5, <1>6 DEF ResultsOK

LEMMA FrameMoves ==
  ASSUME RunsInv, NEW n \in Runs, NEW q, NEW wq, StepOf(n, q, wq, results[n]), Sound(q),
         wq \in [Workers -> WorkerRecord],
         q.status = "none" => run[n].status = "none" /\ q.threw = run[n].threw,
         \/ q.phase = run[n].phase
         \/ run[n].phase \in {"cleanup", "deleting"} /\ q.phase \in {"cleanup", "deleting", "over"},
         q.plan = run[n].plan, q.queue = run[n].queue, run[n].threw => q.threw,
         \A w \in Workers :
           /\ Busy(wq[w]) => Busy(worker[n][w]) /\ wq[w].entry = worker[n][w].entry
           /\ worker[n][w].at = "out" => wq[w].at = "out"
  PROVE  Moves(n)
<1>1. ResultsOK(run[n], worker[n], results[n]) /\ results[n] \in [Scenarios -> Seq(Outcome)]
  BY DEF RunsInv, RunOK
<1>2. ResultsOK(q, wq, results[n]) BY <1>1, PlaceFrame
<1>3. RunOK(q, wq, results[n]) BY <1>1, <1>2 DEF RunOK
<1> QED BY <1>3 DEF Moves

\* A step that leaves the workers where they are.
LEMMA RowMoves ==
  ASSUME RunsInv, NEW n \in Runs, NEW q, run' = [run EXCEPT ![n] = q],
         UNCHANGED <<worker, results>>, Sound(q),
         q.status = "none" => run[n].status = "none",
         \/ q.phase = run[n].phase
         \/ run[n].phase \in {"cleanup", "deleting"} /\ q.phase \in {"cleanup", "deleting", "over"},
         q.plan = run[n].plan, q.queue = run[n].queue, q.threw = run[n].threw
  PROVE  Moves(n)
<1>1. worker[n] \in [Workers -> WorkerRecord] BY DEF RunsInv
<1>2. StepOf(n, q, worker[n], results[n]) BY DEF StepOf, RunsInv
<1> QED BY <1>1, <1>2, FrameMoves

LEMMA RowOf ==
  ASSUME RunsInv, NEW n \in Runs
  PROVE  /\ run[n] \in RunRecord /\ Sound(run[n]) /\ worker[n] \in [Workers -> WorkerRecord]
         /\ results[n] \in [Scenarios -> Seq(Outcome)]
         /\ ResultsOK(run[n], worker[n], results[n])
BY DEF RunsInv, RunOK

LEMMA SetNumbers ==
  ASSUME NEW r \in RunRecord, NEW k \in Nat, NEW phase \in {"cleanup", "deleting"}
  PROVE  /\ [r EXCEPT !.spent = k] \in RunRecord
         /\ [r EXCEPT !.created = k] \in RunRecord
         /\ [r EXCEPT !.phase = phase, !.created = k] \in RunRecord
BY DEF RunRecord

\* What the numbers of a row are, and what a request more makes of it.
LEMMA SpendRow ==
  ASSUME RunsInv, NEW n \in Runs
  PROVE  /\ run[n].spent \in Nat /\ run[n].created \in Nat /\ run[n].reserve \in Nat
         /\ MaxRequests \in Nat
         /\ Spend(n) \in RunRecord /\ Spend(n).spent = run[n].spent + 1
         /\ Spend(n).phase = run[n].phase /\ Spend(n).reserve = run[n].reserve
         /\ Spend(n).created = run[n].created /\ Spend(n).end = run[n].end
<1>1. run[n] \in RunRecord BY RowOf
<1>2. run[n].spent \in Nat /\ run[n].created \in Nat /\ run[n].reserve \in Nat
  BY <1>1 DEF RunRecord
<1>3. MaxRequests \in Nat BY RunsAssumption
<1>4. run[n].spent + 1 \in Nat BY <1>2
<1>5. Spend(n) \in RunRecord BY <1>1, <1>4, SetNumbers DEF Spend
<1>6. /\ Spend(n).spent = run[n].spent + 1
      /\ Spend(n).phase = run[n].phase /\ Spend(n).reserve = run[n].reserve
      /\ Spend(n).created = run[n].created /\ Spend(n).end = run[n].end
  BY <1>1 DEF Spend, RunRecord
<1> QED BY <1>2, <1>3, <1>5, <1>6

LEMMA RowSteps ==
  ASSUME RunsInv, NEW n \in Runs,
         \/ cancelRun(n) \/ CleanupSkips(n) \/ CleanupSends(n) \/ CleanupRedirected(n)
         \/ CleanupAnswered(n) \/ Settles(n) \/ \E w \in Workers : RedirectFollowed(n, w)
  PROVE  Moves(n)
<1>0. run[n] \in RunRecord /\ Sound(run[n]) /\ ResultsOK(run[n], worker[n], results[n]) BY RowOf
<1>1. CASE cancelRun(n)
  <2> DEFINE q == [run[n] EXCEPT !.aborted = TRUE]
  <2>1. run' = [run EXCEPT ![n] = q] /\ UNCHANGED <<worker, results>> BY <1>1 DEF cancelRun
  <2>2. Sound(q) BY <1>0 DEF Sound, RunRecord
  <2>3. /\ q.status = run[n].status /\ q.phase = run[n].phase /\ q.plan = run[n].plan
        /\ q.queue = run[n].queue /\ q.threw = run[n].threw
    BY <1>0 DEF RunRecord
  <2> HIDE DEF q
  <2> QED BY <2>1, <2>2, <2>3, RowMoves
<1>2. CASE CleanupSkips(n)
  <2> DEFINE q == [run[n] EXCEPT !.created = @ - 1]
  <2>1. run' = [run EXCEPT ![n] = q] /\ UNCHANGED <<worker, results>> BY <1>2 DEF CleanupSkips
  <2>2. Sound(q)
    <3>1. run[n].phase = "cleanup" /\ run[n].created > 0 /\ run[n].created \in Nat
      BY <1>2, SpendRow DEF CleanupSkips
    <3>2. run[n].created - 1 \in Nat BY <3>1
    <3>3. q \in RunRecord BY <1>0, <3>2, SetNumbers
    <3>4. q.phase = "cleanup" /\ q.spent = run[n].spent /\ q.end = run[n].end
      BY <1>0, <3>1 DEF RunRecord
    <3> QED BY <1>0, <3>1, <3>3, <3>4 DEF Sound
  <2>3. /\ q.status = run[n].status /\ q.phase = run[n].phase /\ q.plan = run[n].plan
        /\ q.queue = run[n].queue /\ q.threw = run[n].threw
    BY <1>0 DEF RunRecord
  <2> HIDE DEF q
  <2> QED BY <2>1, <2>2, <2>3, RowMoves
<1>3. CASE CleanupSends(n)
  <2> DEFINE q == [Spend(n) EXCEPT !.phase = "deleting"]
  <2>1. run' = [run EXCEPT ![n] = q] /\ UNCHANGED <<worker, results>> BY <1>3 DEF CleanupSends
  <2>2. Sound(q)
    <3>1. run[n].phase = "cleanup" /\ run[n].created > 0 /\ run[n].spent < MaxRequests
      BY <1>3 DEF CleanupSends, reserveCleanup
    <3>2. /\ q \in RunRecord /\ q.phase = "deleting" /\ q.spent = run[n].spent + 1
          /\ q.created = run[n].created /\ q.end = run[n].end
      BY SpendRow DEF RunRecord
    <3> QED BY <1>0, <3>1, <3>2, SpendRow DEF Sound
  <2>3. /\ q.status = run[n].status /\ q.phase = "deleting" /\ q.plan = run[n].plan
        /\ q.queue = run[n].queue /\ q.threw = run[n].threw
    BY <1>0 DEF RunRecord, Spend
  <2>4. run[n].phase = "cleanup" BY <1>3 DEF CleanupSends
  <2> HIDE DEF q
  <2> QED BY <2>1, <2>2, <2>3, <2>4, RowMoves
<1>4. CASE CleanupRedirected(n)
  <2> DEFINE q == Spend(n)
  <2>1. run' = [run EXCEPT ![n] = q] /\ UNCHANGED <<worker, results>> BY <1>4 DEF CleanupRedirected
  <2>2. Sound(q)
    <3>1. run[n].phase = "deleting" /\ run[n].spent < MaxRequests
      BY <1>4 DEF CleanupRedirected, reserveCleanup
    <3> QED BY <1>0, <3>1, SpendRow DEF Sound
  <2>3. /\ q.status = run[n].status /\ q.phase = run[n].phase /\ q.plan = run[n].plan
        /\ q.queue = run[n].queue /\ q.threw = run[n].threw
    BY <1>0 DEF RunRecord, Spend
  <2> HIDE DEF q
  <2> QED BY <2>1, <2>2, <2>3, RowMoves
<1>5. CASE CleanupAnswered(n)
  <2> DEFINE q == [run[n] EXCEPT !.phase = "cleanup", !.created = @ - 1]
  <2>1. run' = [run EXCEPT ![n] = q] /\ UNCHANGED <<worker, results>> BY <1>5 DEF CleanupAnswered
  <2>2. Sound(q)
    <3>1. run[n].phase = "deleting" /\ run[n].created > 0 /\ run[n].created \in Nat
      BY <1>0, <1>5, SpendRow DEF CleanupAnswered, Sound
    <3>2. run[n].created - 1 \in Nat BY <3>1
    <3>3. q \in RunRecord BY <1>0, <3>2, SetNumbers
    <3>4. q.phase = "cleanup" /\ q.spent = run[n].spent /\ q.end = run[n].end
      BY <1>0, <3>1 DEF RunRecord
    <3> QED BY <1>0, <3>1, <3>3, <3>4 DEF Sound
  <2>3. /\ q.status = run[n].status /\ q.phase = "cleanup" /\ q.plan = run[n].plan
        /\ q.queue = run[n].queue /\ q.threw = run[n].threw
    BY <1>0 DEF RunRecord
  <2>4. run[n].phase = "deleting" BY <1>5 DEF CleanupAnswered
  <2> HIDE DEF q
  <2> QED BY <2>1, <2>2, <2>3, <2>4, RowMoves
<1>6. CASE Settles(n)
  <2> DEFINE q == [run[n] EXCEPT !.phase = "over", !.status = run[n].end]
  <2>1. run' = [run EXCEPT ![n] = q] /\ UNCHANGED <<worker, results>> BY <1>6 DEF Settles
  <2>2. Sound(q) BY <1>0, <1>6 DEF Sound, RunRecord, Settles
  <2>3. /\ q.status = run[n].end /\ q.phase = "over" /\ q.plan = run[n].plan
        /\ q.queue = run[n].queue /\ q.threw = run[n].threw
    BY <1>0 DEF RunRecord
  <2>4. run[n].phase = "cleanup" /\ run[n].end # "none" BY <1>0, <1>6 DEF Settles, Sound
  <2> HIDE DEF q
  <2> QED BY <2>1, <2>2, <2>3, <2>4, RowMoves
<1>7. ASSUME NEW w \in Workers, RedirectFollowed(n, w) PROVE Moves(n)
  <2> DEFINE q == Spend(n)
  <2>1. run' = [run EXCEPT ![n] = q] /\ UNCHANGED <<worker, results>> BY <1>7 DEF RedirectFollowed
  <2>2. Sound(q)
    <3>1. run[n].spent < MaxRequests - run[n].reserve BY <1>7 DEF RedirectFollowed, reserveScenario
    <3> QED BY <1>0, <3>1, SpendRow DEF Sound
  <2>3. /\ q.status = run[n].status /\ q.phase = run[n].phase /\ q.plan = run[n].plan
        /\ q.queue = run[n].queue /\ q.threw = run[n].threw
    BY <1>0 DEF RunRecord, Spend
  <2> HIDE DEF q
  <2> QED BY <2>1, <2>2, <2>3, RowMoves
<1> QED BY <1>1, <1>2, <1>3, <1>4, <1>5, <1>6, <1>7

LEMMA SendsMoves ==
  ASSUME RunsInv, NEW n \in Runs, NEW w \in Workers, Sends(n, w)
  PROVE  Moves(n)
<1> DEFINE q == Spend(n)
           wq == [worker[n] EXCEPT ![w].at = "sending"]
<1>0. /\ run[n] \in RunRecord /\ Sound(run[n]) /\ worker[n] \in [Workers -> WorkerRecord]
  BY RowOf
<1>1. StepOf(n, q, wq, results[n]) BY DEF Sends, StepOf, RunsInv
<1>2. Sound(q)
  <2>1. run[n].spent < MaxRequests - run[n].reserve BY DEF Sends, reserveScenario
  <2> QED BY <1>0, <2>1, SpendRow DEF Sound
<1>3. /\ wq \in [Workers -> WorkerRecord] /\ wq[w].entry = worker[n][w].entry
      /\ wq[w].at = "sending" /\ \A u \in Workers : u # w => wq[u] = worker[n][u]
  BY <1>0 DEF WorkerRecord
<1>4. worker[n][w].at = "attempt" BY DEF Sends, Attempting
<1>5. /\ q.status = run[n].status /\ q.phase = run[n].phase /\ q.plan = run[n].plan
      /\ q.queue = run[n].queue /\ q.threw = run[n].threw
  BY <1>0 DEF RunRecord, Spend
<1> HIDE DEF q, wq
<1>6. \A u \in Workers : /\ Busy(wq[u]) => Busy(worker[n][u]) /\ wq[u].entry = worker[n][u].entry
                         /\ worker[n][u].at = "out" => wq[u].at = "out"
  BY <1>3, <1>4 DEF Busy
<1> QED BY <1>1, <1>2, <1>3, <1>5, <1>6, FrameMoves

LEMMA ResponseMoves ==
  ASSUME RunsInv, NEW n \in Runs, NEW w \in Workers, NEW creates \in BOOLEAN,
         ResponseArrives(n, w, creates)
  PROVE  Moves(n)
<1> DEFINE k == run[n].created + IF creates THEN 1 ELSE 0
           q == [run[n] EXCEPT !.created = k]
           wq == [worker[n] EXCEPT ![w].at = "attempt", ![w].done = @ + 1]
<1>0. /\ run[n] \in RunRecord /\ Sound(run[n]) /\ worker[n] \in [Workers -> WorkerRecord]
  BY RowOf
<1>1. StepOf(n, q, wq, results[n]) BY DEF ResponseArrives, StepOf, RunsInv
<1>2. k \in Nat /\ k >= run[n].created BY SpendRow
<1> HIDE DEF k
<1>3. /\ q \in RunRecord /\ q.status = run[n].status /\ q.phase = run[n].phase
      /\ q.plan = run[n].plan /\ q.queue = run[n].queue /\ q.threw = run[n].threw
      /\ q.spent = run[n].spent /\ q.reserve = run[n].reserve /\ q.end = run[n].end
      /\ q.created = k
  BY <1>0, <1>2 DEF RunRecord
<1>4. Sound(q) BY <1>0, <1>2, <1>3, SpendRow DEF Sound
<1>5. /\ worker[n][w].done + 1 \in Nat /\ worker[n][w] \in WorkerRecord
      /\ worker[n][w].at = "sending"
  BY <1>0 DEF WorkerRecord, ResponseArrives
<1>6. wq = [worker[n] EXCEPT ![w] = [worker[n][w] EXCEPT !.at = "attempt",
                                                         !.done = worker[n][w].done + 1]]
  BY <1>0 DEF WorkerRecord
<1>7. [worker[n][w] EXCEPT !.at = "attempt", !.done = worker[n][w].done + 1] \in WorkerRecord
  <2> DEFINE d == worker[n][w].done + 1
  <2>1. d \in Nat BY <1>5
  <2> HIDE DEF d
  <2>2. [worker[n][w] EXCEPT !.at = "attempt", !.done = d] \in WorkerRecord
    BY <1>5, <2>1 DEF WorkerRecord
  <2> QED BY <2>2 DEF d
<1>8. /\ wq \in [Workers -> WorkerRecord] /\ wq[w].entry = worker[n][w].entry
      /\ wq[w].at = "attempt" /\ \A u \in Workers : u # w => wq[u] = worker[n][u]
  BY <1>0, <1>5, <1>6, <1>7 DEF WorkerRecord
<1> HIDE DEF q, wq
<1>9. \A u \in Workers : /\ Busy(wq[u]) => Busy(worker[n][u]) /\ wq[u].entry = worker[n][u].entry
                         /\ worker[n][u].at = "out" => wq[u].at = "out"
  BY <1>5, <1>8 DEF Busy
<1> QED BY <1>1, <1>3, <1>4, <1>8, <1>9, FrameMoves

LEMMA OutTyped == Out \in WorkerRecord /\ Out.at = "out" /\ ~Busy(Out)
BY DEF Out, WorkerRecord, Busy

LEMMA ThrowsMoves ==
  ASSUME RunsInv, NEW n \in Runs, NEW w \in Workers, WorkerThrows(n, w)
  PROVE  Moves(n)
<1> DEFINE q == [run[n] EXCEPT !.threw = TRUE]
           wq == [worker[n] EXCEPT ![w] = Out]
<1>0. /\ run[n] \in RunRecord /\ Sound(run[n]) /\ worker[n] \in [Workers -> WorkerRecord]
      /\ ResultsOK(run[n], worker[n], results[n])
  BY RowOf
<1>1. StepOf(n, q, wq, results[n]) BY DEF WorkerThrows, StepOf, RunsInv
<1>2. /\ q \in RunRecord /\ q.status = run[n].status /\ q.phase = run[n].phase
      /\ q.plan = run[n].plan /\ q.queue = run[n].queue /\ q.threw = TRUE
      /\ q.spent = run[n].spent /\ q.reserve = run[n].reserve /\ q.end = run[n].end
      /\ q.created = run[n].created
  BY <1>0 DEF RunRecord
<1>3. Sound(q) BY <1>0, <1>2 DEF Sound
<1>4. /\ wq \in [Workers -> WorkerRecord] /\ wq[w] = Out
      /\ \A u \in Workers : u # w => wq[u] = worker[n][u]
  BY <1>0, OutTyped
<1>5. worker[n][w].at = "sending" BY DEF WorkerThrows
<1>6. q.status # "none" BY <1>0, <1>2, <1>5 DEF ResultsOK
<1> HIDE DEF q, wq
<1>7. \A u \in Workers : /\ Busy(wq[u]) => Busy(worker[n][u]) /\ wq[u].entry = worker[n][u].entry
                         /\ worker[n][u].at = "out" => wq[u].at = "out"
  BY <1>4, OutTyped
<1> QED BY <1>1, <1>2, <1>3, <1>4, <1>6, <1>7, FrameMoves

LEMMA TakesMoves ==
  ASSUME RunsInv, NEW n \in Runs, NEW w \in Workers, WorkerTakes(n, w)
  PROVE  Moves(n)
<1>0. /\ run[n] \in RunRecord /\ Sound(run[n]) /\ worker[n] \in [Workers -> WorkerRecord]
      /\ results[n] \in [Scenarios -> Seq(Outcome)]
      /\ ResultsOK(run[n], worker[n], results[n]) /\ worker[n][w].at = "next"
  BY RowOf DEF WorkerTakes
<1>1. CASE run[n].aborted \/ run[n].queue = <<>>
  <2> DEFINE wq == [worker[n] EXCEPT ![w] = Out]
  <2>1. StepOf(n, run[n], wq, results[n]) BY <1>1 DEF WorkerTakes, StepOf, RunsInv
  <2>2. /\ wq \in [Workers -> WorkerRecord] /\ wq[w] = Out
        /\ \A u \in Workers : u # w => wq[u] = worker[n][u]
    BY <1>0, OutTyped
  <2> HIDE DEF wq
  <2>3. \A u \in Workers :
          /\ Busy(wq[u]) => Busy(worker[n][u]) /\ wq[u].entry = worker[n][u].entry
          /\ worker[n][u].at = "out" => wq[u].at = "out"
    BY <2>2, OutTyped
  <2> QED BY <1>0, <2>1, <2>2, <2>3, FrameMoves
<1>2. CASE ~run[n].aborted /\ run[n].queue # <<>>
  <2> DEFINE s == Head(run[n].queue)
             tail == Tail(run[n].queue)
             q == [run[n] EXCEPT !.queue = tail]
             k == [at |-> "attempt", entry |-> s, done |-> 0]
             wq == [worker[n] EXCEPT ![w] = k]
  <2>1. StepOf(n, q, wq, results[n]) BY <1>2 DEF WorkerTakes, StepOf, RunsInv
  <2>2. run[n].queue \in Seq(Scenarios) BY <1>0 DEF RunRecord
  <2>3. /\ s = run[n].queue[1] /\ s \in Scenarios /\ tail \in Seq(Scenarios)
        /\ 1 \in 1..Len(run[n].queue) /\ Len(tail) = Len(run[n].queue) - 1
        /\ \A i \in 1..Len(tail) : /\ tail[i] = run[n].queue[i + 1]
                                   /\ i + 1 \in 1..Len(run[n].queue) /\ i + 1 # 1
    BY <1>2, <2>2
  <2>4. /\ k \in WorkerRecord /\ k.entry = s /\ Busy(k) BY <2>3 DEF WorkerRecord, Busy
  <2> HIDE DEF tail, s, k
  <2>5. /\ q \in RunRecord /\ q.status = run[n].status /\ q.phase = run[n].phase
        /\ q.plan = run[n].plan /\ q.queue = tail /\ q.threw = run[n].threw
        /\ q.spent = run[n].spent /\ q.reserve = run[n].reserve /\ q.end = run[n].end
        /\ q.created = run[n].created
    BY <1>0, <2>3 DEF RunRecord
  <2>6. Sound(q) BY <1>0, <2>5 DEF Sound
  <2>7. /\ wq \in [Workers -> WorkerRecord] /\ wq[w] = k
        /\ \A u \in Workers : u # w => wq[u] = worker[n][u]
    BY <1>0, <2>4
  <2> HIDE DEF q, wq
  <2>8. ASSUME ~run[n].threw
        PROVE  /\ run[n].phase = "working" /\ InOnePlace(run[n], worker[n], results[n])
    BY <1>0, <2>8 DEF ResultsOK
  <2>9. ASSUME ~run[n].threw PROVE InOnePlace(q, wq, results[n])
    <3> USE <2>9
    <3>1. \A i, j \in 1..Len(tail) : tail[i] = tail[j] => i = j
      BY <2>3, <2>8 DEF InOnePlace
    <3>2. \A i \in 1..Len(tail) : run[n].plan[tail[i]] # 0 /\ results[n][tail[i]] = <<>>
      BY <2>3, <2>8 DEF InOnePlace
    <3>3. \A i \in 1..Len(tail) : tail[i] # s BY <2>3, <2>8 DEF InOnePlace
    <3>4. \A u \in Workers : Busy(worker[n][u]) => worker[n][u].entry # s
      BY <2>3, <2>8 DEF InOnePlace
    <3>5. run[n].plan[s] # 0 /\ results[n][s] = <<>> BY <2>3, <2>8 DEF InOnePlace
    <3>6. \A i \in 1..Len(tail) : \A u \in Workers : Busy(wq[u]) => wq[u].entry # tail[i]
      <4>1. \A i \in 1..Len(tail) : \A u \in Workers :
              Busy(worker[n][u]) => worker[n][u].entry # tail[i]
        BY <2>3, <2>8 DEF InOnePlace
      <4> QED BY <2>4, <2>7, <3>3, <4>1
    <3>7. \A u \in Workers : Busy(wq[u]) =>
            wq[u].entry \in Scenarios /\ q.plan[wq[u].entry] # 0 /\ results[n][wq[u].entry] = <<>>
      BY <2>3, <2>4, <2>5, <2>7, <2>8, <3>5 DEF InOnePlace
    <3>8. \A u, v \in Workers : Busy(wq[u]) /\ Busy(wq[v]) /\ wq[u].entry = wq[v].entry => u = v
      BY <2>4, <2>7, <2>8, <3>4 DEF InOnePlace
    <3>9. \A t \in Scenarios : results[n][t] # <<>> => Len(results[n][t]) = 1 /\ q.plan[t] # 0
      BY <2>5, <2>8 DEF InOnePlace
    <3> QED BY <2>5, <3>1, <3>2, <3>6, <3>7, <3>8, <3>9 DEF InOnePlace
  <2>10. run[n].status # "none" BY <1>0 DEF ResultsOK
  <2>11. ResultsOK(q, wq, results[n])
    BY <1>0, <2>5, <2>8, <2>9, <2>10 DEF ResultsOK
  <2>12. RunOK(q, wq, results[n]) BY <1>0, <2>6, <2>7, <2>11 DEF RunOK
  <2> QED BY <2>1, <2>5, <2>12 DEF Moves
<1>3. run[n].aborted \in BOOLEAN BY <1>0 DEF RunRecord
<1> QED BY <1>1, <1>2, <1>3

LEMMA PoolEndsMoves ==
  ASSUME RunsInv, NEW n \in Runs, PoolEnds(n)
  PROVE  Moves(n)
<1> DEFINE end == IF run[n].threw THEN "failed" ELSE IF run[n].aborted THEN "cancelled" ELSE "completed"
           q == [run[n] EXCEPT !.phase = "cleanup", !.end = end]
           res == [s \in Scenarios |-> IF s \in Planned(n) /\ ~Finished(n, s) THEN <<"not_run">>
                                       ELSE results[n][s]]
<1>0. /\ run[n] \in RunRecord /\ Sound(run[n]) /\ worker[n] \in [Workers -> WorkerRecord]
      /\ results[n] \in [Scenarios -> Seq(Outcome)]
      /\ ResultsOK(run[n], worker[n], results[n]) /\ run[n].phase = "working" /\ PoolOver(n)
  BY RowOf DEF PoolEnds
<1>1. StepOf(n, q, worker[n], res) BY DEF PoolEnds, StepOf, RunsInv
<1>2. end \in {"completed", "cancelled", "failed"} OBVIOUS
<1> HIDE DEF end
<1>3. /\ q \in RunRecord /\ q.status = run[n].status /\ q.phase = "cleanup"
      /\ q.plan = run[n].plan /\ q.threw = run[n].threw
      /\ q.spent = run[n].spent /\ q.end = end
  BY <1>0, <1>2 DEF RunRecord
<1>4. Sound(q) BY <1>0, <1>2, <1>3 DEF Sound
<1>5. <<"not_run">> \in Seq(Outcome) /\ Len(<<"not_run">>) = 1 BY DEF Outcome
<1>6. res \in [Scenarios -> Seq(Outcome)] BY <1>0, <1>5
<1>7. run[n].status # "none" BY <1>0 DEF ResultsOK
<1>8. ASSUME ~run[n].threw
      PROVE  /\ \A w \in Workers : worker[n][w].at = "out"
             /\ \A s \in Scenarios : Len(res[s]) = IF run[n].plan[s] # 0 THEN 1 ELSE 0
  <2>1. InOnePlace(run[n], worker[n], results[n]) BY <1>0, <1>8 DEF ResultsOK
  <2>2. ASSUME NEW s \in Scenarios
        PROVE  Len(res[s]) = IF run[n].plan[s] # 0 THEN 1 ELSE 0
    <3>1. results[n][s] # <<>> => Len(results[n][s]) = 1 /\ run[n].plan[s] # 0
      BY <2>1 DEF InOnePlace
    <3>2. CASE run[n].plan[s] # 0 /\ results[n][s] = <<>>
      BY <1>5, <3>2 DEF Planned, Finished
    <3>3. CASE run[n].plan[s] # 0 /\ results[n][s] # <<>>
      BY <3>1, <3>3 DEF Planned, Finished
    <3>4. CASE run[n].plan[s] = 0
      BY <3>1, <3>4 DEF Planned, Finished
    <3> QED BY <3>2, <3>3, <3>4
  <2> QED BY <1>0, <1>8, <2>2 DEF PoolOver
<1> HIDE DEF q, res
<1>9. ResultsOK(q, worker[n], res) BY <1>3, <1>7, <1>8 DEF ResultsOK
<1>10. RunOK(q, worker[n], res) BY <1>0, <1>4, <1>6, <1>9 DEF RunOK
<1> QED BY <1>1, <1>3, <1>10 DEF Moves

LEMMA WorkerMoves ==
  ASSUME RunsInv, NEW n \in Runs, NEW w \in Workers, WorkerStep(n, w)
  PROVE  Moves(n)
<1>1. CASE NotBuilt(n, w)
  <2>1. Busy(worker[n][w]) /\ record(n, w, "blocked", FALSE)
    BY <1>1 DEF NotBuilt, Attempting, Busy
  <2> QED BY <2>1, RecordMoves DEF Outcome
<1>2. CASE AttemptStops(n, w)
  <2>1. Busy(worker[n][w]) /\ record(n, w, "not_run", FALSE)
    BY <1>2 DEF AttemptStops, Attempting, Busy
  <2> QED BY <2>1, RecordMoves DEF Outcome
<1>3. ASSUME NEW outcome \in {"passed", "failed", "inconclusive"}, NEW judged \in BOOLEAN,
             Evaluates(n, w, outcome, judged)
      PROVE  Moves(n)
  <2>1. Busy(worker[n][w]) /\ record(n, w, outcome, judged)
    BY <1>3 DEF Evaluates, Attempting, Busy
  <2>2. outcome \in Outcome BY DEF Outcome
  <2> QED BY <2>1, <2>2, RecordMoves
<1>4. ASSUME NEW outcome \in {"blocked", "errored"}, SendFails(n, w, outcome)
      PROVE  Moves(n)
  <2>1. Busy(worker[n][w]) /\ record(n, w, outcome, FALSE) BY <1>4 DEF SendFails, Busy
  <2>2. outcome \in Outcome BY DEF Outcome
  <2> QED BY <2>1, <2>2, RecordMoves
<1>5. CASE SendAborted(n, w)
  <2>1. Busy(worker[n][w]) /\ record(n, w, "not_run", FALSE) BY <1>5 DEF SendAborted, Busy
  <2> QED BY <2>1, RecordMoves DEF Outcome
<1>6. ASSUME NEW creates \in BOOLEAN, ResponseArrives(n, w, creates) PROVE Moves(n)
  BY <1>6, ResponseMoves
<1>7. CASE WorkerTakes(n, w) BY <1>7, TakesMoves
<1>8. CASE Sends(n, w) BY <1>8, SendsMoves
<1>9. CASE RedirectFollowed(n, w) BY <1>9, RowSteps
<1>10. CASE WorkerThrows(n, w) BY <1>10, ThrowsMoves
<1> QED BY <1>1, <1>2, <1>3, <1>4, <1>5, <1>6, <1>7, <1>8, <1>9, <1>10 DEF WorkerStep

\* A step of one run changes no scenario but for what it shows of the last run.
ScenariosSeen ==
  /\ UNCHANGED <<loaded, versions, reviewed, repointed>>
  /\ \/ UNCHANGED head
     \/ \E s, e : e \in {"executed", "evaluated"} /\ head' = [head EXCEPT ![s].execution = e]

LEMMA AnswersSeen ==
  ASSUME NEW n \in Runs, Answers(n)
  PROVE  ScenariosSeen
<1>1. ASSUME NEW w, NEW outcome, NEW judged, record(n, w, outcome, judged) PROVE ScenariosSeen
  <2> DEFINE s == worker[n][w].entry
             e == IF judged THEN "evaluated" ELSE "executed"
  <2>1. UNCHANGED <<loaded, versions, reviewed, repointed>> BY <1>1 DEF record
  <2>2. UNCHANGED head \/ head' = [head EXCEPT ![s].execution = e] BY <1>1 DEF record
  <2>3. e \in {"executed", "evaluated"} OBVIOUS
  <2> QED BY <2>1, <2>2, <2>3 DEF ScenariosSeen
<1>2. ASSUME NEW w \in Workers, WorkerStep(n, w) PROVE ScenariosSeen
  <2>1. CASE \/ NotBuilt(n, w) \/ AttemptStops(n, w) \/ SendAborted(n, w)
             \/ \E outcome \in {"passed", "failed", "inconclusive"}, judged \in BOOLEAN :
                  Evaluates(n, w, outcome, judged)
             \/ \E outcome \in {"blocked", "errored"} : SendFails(n, w, outcome)
    BY <1>1, <2>1 DEF NotBuilt, AttemptStops, SendAborted, Evaluates, SendFails
  <2>2. CASE \/ WorkerTakes(n, w) \/ Sends(n, w) \/ RedirectFollowed(n, w) \/ WorkerThrows(n, w)
             \/ \E creates \in BOOLEAN : ResponseArrives(n, w, creates)
    BY <2>2 DEF WorkerTakes, Sends, RedirectFollowed, WorkerThrows, ResponseArrives, scenarioVars,
                ScenariosSeen
  <2> QED BY <1>2, <2>1, <2>2 DEF WorkerStep
<1>3. CASE \/ PoolEnds(n) \/ CleanupSkips(n) \/ CleanupSends(n) \/ CleanupRedirected(n)
           \/ CleanupAnswered(n) \/ Settles(n)
  BY <1>3 DEF PoolEnds, CleanupSkips, CleanupSends, CleanupRedirected, CleanupAnswered, Settles,
              scenarioVars, ScenariosSeen
<1> QED BY <1>2, <1>3 DEF Answers

LEMMA AnswersMove ==
  ASSUME RunsInv, NEW n \in Runs, Answers(n)
  PROVE  Moves(n)
BY WorkerMoves, PoolEndsMoves, RowSteps DEF Answers

LEMMA SeenKeeps ==
  ASSUME ScenariosTypeOK, ApprovalInv, ScenariosSeen
  PROVE  ScenariosTypeOK' /\ ApprovalInv' /\ Grows
<1>1. Grows BY DEF ScenariosSeen, Grows
<1>2. ApprovalInv' BY DEF ScenariosSeen, ApprovalInv, WasReviewed
<1>3. /\ head' \in [Scenarios -> [version : Nat, review : ReviewState,
                                  execution : {"not_run", "executed", "evaluated"}]]
      /\ \A s \in Scenarios : head'[s].version = head[s].version
  <2>1. CASE UNCHANGED head BY <2>1 DEF ScenariosTypeOK
  <2>2. ASSUME NEW s, NEW e \in {"executed", "evaluated"}, head' = [head EXCEPT ![s].execution = e]
        PROVE  /\ head' \in [Scenarios -> [version : Nat, review : ReviewState,
                                           execution : {"not_run", "executed", "evaluated"}]]
               /\ \A t \in Scenarios : head'[t].version = head[t].version
    BY <2>2 DEF ScenariosTypeOK
  <2> QED BY <2>1, <2>2 DEF ScenariosSeen
<1>4. ScenariosTypeOK' BY <1>3 DEF ScenariosSeen, ScenariosTypeOK
<1> QED BY <1>1, <1>2, <1>4

LEMMA MovesKeeps ==
  ASSUME RunsInv, NEW n \in Runs, Moves(n)
  PROVE  RunsInv' /\ \A m \in Runs : run'[m].plan = run[m].plan
<1>1. PICK r, wk, res : RunOK(r, wk, res) /\ r.plan = run[n].plan /\ StepOf(n, r, wk, res)
  BY DEF Moves
<1>2. RunsInv' /\ run'[n] = r /\ \A m \in Runs : m # n => run'[m] = run[m] BY <1>1, StepKeeps
<1> QED BY <1>1, <1>2

LEMMA PlanStays ==
  ASSUME ScenariosTypeOK, PlanInv, Grows, \A m \in Runs : run'[m].plan = run[m].plan
  PROVE  PlanInv'
<1> SUFFICES ASSUME NEW n \in Runs, NEW s \in Scenarios, run'[n].plan[s] # 0
             PROVE  /\ run'[n].plan[s] \in 1..Len(versions'[s])
                    /\ WasReviewed(s, versions[s][run[n].plan[s]])'
  BY DEF PlanInv
<1>1. PICK v \in 1..Len(versions[s]) :
        v = run[n].plan[s] /\ v = run'[n].plan[s] /\ WasReviewed(s, versions[s][v])
  BY DEF PlanInv
<1>2. v \in 1..Len(versions'[s]) BY DEF Grows
<1>3. WasReviewed(s, versions[s][v])' BY <1>1, ReviewedStays
<1> QED BY <1>1, <1>2, <1>3 DEF WasReviewed

(* ---------------------- starts, restarts and the rest ------------------ *)

LEMMA FrozenKeeps ==
  ASSUME ScenariosTypeOK, ApprovalInv, UNCHANGED <<versions, reviewed, repointed, head>>,
         loaded' \in Bases \cup {"none"}
  PROVE  ScenariosTypeOK' /\ ApprovalInv' /\ Grows
BY DEF ScenariosTypeOK, ApprovalInv, WasReviewed, Grows

LEMMA RunsFrame ==
  ASSUME RunsInv, UNCHANGED runVars
  PROVE  RunsInv' /\ \A m \in Runs : run'[m].plan = run[m].plan
BY DEF RunsInv, runVars, RunOK, Sound, ResultsOK, InOnePlace

\* What a plan asks for is a number.
LEMMA RequestsCounted ==
  ASSUME NEW items \in SUBSET Scenarios, \A s \in items : Current(s) \in Version
  PROVE  scenarioRequests(items) \in Nat /\ cleanupRequests(items) \in Nat
<1>1. IsFiniteSet(items) BY ScenariosAssumption, FS_Subset
<1>2. cleanupRequests(items) \in Nat
  <2> DEFINE c == { s \in items : Current(s).content \in Creates }
  <2>1. c \in SUBSET items OBVIOUS
  <2>2. IsFiniteSet(c) BY <1>1, <2>1, FS_Subset
  <2>3. Cardinality(c) \in Nat BY <2>2, FS_CardinalityType
  <2> QED BY <2>3 DEF cleanupRequests
<1> DEFINE T == { {s} \X (1..Repeat[Current(s).content]) : s \in items }
           f == [s \in items |-> {s} \X (1..Repeat[Current(s).content])]
<1>3. IsFiniteSet(T)
  <2>1. f \in [items -> T] OBVIOUS
  <2>2. \A t \in T : \E s \in items : f[s] = t OBVIOUS
  <2>3. f \in Surjection(items, T) BY <2>1, <2>2 DEF Surjection
  <2> HIDE DEF f, T
  <2> QED BY <1>1, <2>3, FS_Surjection
<1>4. \A t \in T : IsFiniteSet(t)
  <2> SUFFICES ASSUME NEW s \in items
               PROVE  IsFiniteSet({s} \X (1..Repeat[Current(s).content]))
    OBVIOUS
  <2>1. Repeat[Current(s).content] \in Int BY RunsAssumption DEF Version
  <2>2. IsFiniteSet(1..Repeat[Current(s).content]) BY <2>1, FS_Interval
  <2>3. IsFiniteSet({s}) BY FS_Singleton
  <2> QED BY <2>2, <2>3, FS_Product
<1>5. IsFiniteSet(UNION T) BY <1>3, <1>4, FS_UNION
<1>6. Cardinality(UNION T) \in Nat BY <1>5, FS_CardinalityType
<1> QED BY <1>2, <1>6 DEF scenarioRequests

LEMMA StartKeeps ==
  ASSUME ScenariosTypeOK, ApprovalInv, RunsInv, PlanInv, NEW n \in Runs,
         NEW k \in Nat, NEW queue \in [1..k -> Scenarios], startRun(n, queue)
  PROVE  RunsInv' /\ PlanInv'
<1> DEFINE items == { queue[i] : i \in DOMAIN queue }
           plan == [s \in Scenarios |-> IF s \in items THEN head[s].version ELSE 0]
           r == [NoRun EXCEPT !.status = "in-progress", !.phase = "working", !.queue = queue,
                              !.plan = plan, !.reserve = cleanupRequests(items)]
           wk == [w \in Workers |-> IF w <= Len(queue) THEN [Out EXCEPT !.at = "next"] ELSE Out]
<1>0. /\ results[n] \in [Scenarios -> Seq(Outcome)] /\ ResultsOK(run[n], worker[n], results[n])
      /\ run[n].status = "none"
  BY RowOf DEF startRun
<1>1. StepOf(n, r, wk, results[n]) BY DEF startRun, StepOf, RunsInv
<1>2. queue \in Seq(Scenarios) /\ Len(queue) = k /\ DOMAIN queue = 1..k OBVIOUS
<1>3. /\ \A i, j \in 1..k : queue[i] = queue[j] => i = j
      /\ \A s \in items : Runnable(s)
      /\ scenarioRequests(items) + cleanupRequests(items) <= MaxRequests
  BY <1>2 DEF startRun
<1>4. items \in SUBSET Scenarios BY <1>2
<1>5. \A s \in items : /\ Current(s) \in Version /\ head[s].version \in 1..Len(versions[s])
                       /\ head[s].version # 0 /\ head[s].version \in Nat
                       /\ Current(s).approved /\ Current(s) = versions[s][head[s].version]
  BY <1>3, <1>4, CurrentTyped DEF Runnable, Exists, Current, ScenariosTypeOK
<1>6. cleanupRequests(items) \in Nat /\ scenarioRequests(items) \in Nat
      /\ MaxRequests \in Nat
  BY <1>4, <1>5, RequestsCounted, RunsAssumption
<1>7. \A i \in 1..k : queue[i] \in items BY <1>2
<1>8. plan \in [Scenarios -> Nat] /\ \A i \in 1..k : plan[queue[i]] # 0
  BY <1>4, <1>5, <1>7
<1>9. \A s \in Scenarios : plan[s] # 0 =>
        plan[s] \in 1..Len(versions[s]) /\ WasReviewed(s, versions[s][plan[s]])
  BY <1>5 DEF ApprovalInv
<1> DEFINE reserve == cleanupRequests(items)
<1>10. reserve \in Nat /\ 0 <= MaxRequests - reserve BY <1>3, <1>6
<1> HIDE DEF plan, reserve
<1>11. /\ r \in RunRecord /\ r.status = "in-progress" /\ r.phase = "working" /\ r.queue = queue
       /\ r.plan = plan /\ r.reserve = reserve /\ r.spent = 0 /\ r.threw = FALSE
  BY <1>2, <1>8, <1>10 DEF RunRecord, NoRun, reserve, plan
<1>12. Sound(r) BY <1>10, <1>11, <1>6 DEF Sound
<1>13. /\ wk \in [Workers -> WorkerRecord] /\ \A w \in Workers : ~Busy(wk[w])
  BY DEF Out, WorkerRecord, Busy
<1>14. \A s \in Scenarios : results[n][s] = <<>> BY <1>0 DEF ResultsOK
<1> HIDE DEF r, wk, items
<1>15. InOnePlace(r, wk, results[n])
  <2>1. \A i \in 1..Len(r.queue) : r.queue[i] \in Scenarios BY <1>2, <1>11
  <2> QED BY <1>2, <1>3, <1>8, <1>11, <1>13, <1>14, <2>1 DEF InOnePlace
<1>16. RunOK(r, wk, results[n])
  BY <1>0, <1>11, <1>12, <1>13, <1>15 DEF RunOK, ResultsOK
<1>17. RunsInv' /\ run'[n] = r /\ \A m \in Runs : m # n => run'[m] = run[m]
  BY <1>1, <1>16, StepKeeps
<1>18. UNCHANGED <<versions, reviewed, repointed>> BY DEF startRun, scenarioVars
<1>19. PlanInv'
  <2> SUFFICES ASSUME NEW m \in Runs, NEW s \in Scenarios, run'[m].plan[s] # 0
               PROVE  /\ run'[m].plan[s] \in 1..Len(versions[s])
                      /\ WasReviewed(s, versions[s][run'[m].plan[s]])
    BY <1>18 DEF PlanInv, WasReviewed
  <2>1. CASE m = n BY <1>9, <1>11, <1>17, <2>1
  <2>2. CASE m # n BY <1>17, <2>2 DEF PlanInv
  <2> QED BY <2>1, <2>2
<1> QED BY <1>17, <1>19

LEMMA RestartKeeps ==
  ASSUME RunsInv, Restart
  PROVE  RunsInv' /\ \A m \in Runs : run'[m].plan = run[m].plan
<1> SUFFICES ASSUME NEW n \in Runs
             PROVE  /\ RunOK(run'[n], worker'[n], results'[n])
                    /\ run'[n].plan = run[n].plan
  BY DEF Restart, RunsInv, RunOK, Sound, ResultsOK, InOnePlace
<1> DEFINE q == IF InProgress(n) THEN [run[n] EXCEPT !.status = "cancelled", !.phase = "lost"]
                ELSE run[n]
<1>0. /\ run[n] \in RunRecord /\ Sound(run[n]) /\ ResultsOK(run[n], worker[n], results[n])
      /\ worker[n] \in [Workers -> WorkerRecord] /\ results[n] \in [Scenarios -> Seq(Outcome)]
  BY RowOf
<1>1. /\ run'[n] = q /\ worker'[n] = [w \in Workers |-> Out] /\ results'[n] = results[n]
  BY DEF Restart
<1>2. [w \in Workers |-> Out] \in [Workers -> WorkerRecord] BY OutTyped
<1>3. CASE InProgress(n)
  <2>1. /\ q \in RunRecord /\ q.status = "cancelled" /\ q.phase = "lost"
        /\ q.plan = run[n].plan /\ q.spent = run[n].spent
    BY <1>0, <1>3 DEF RunRecord
  <2>2. Sound(q) BY <1>0, <2>1 DEF Sound
  <2> HIDE DEF q
  <2>3. ResultsOK(q, worker'[n], results[n]) BY <1>1, <2>1, OutTyped DEF ResultsOK
  <2> QED BY <1>0, <1>1, <1>2, <2>1, <2>2, <2>3 DEF RunOK
<1>4. CASE ~InProgress(n)
  <2>1. q = run[n] BY <1>4
  <2> HIDE DEF q
  <2>2. \A w \in Workers : ~Busy(worker'[n][w]) /\ worker'[n][w].at = "out" BY <1>1, OutTyped
  <2>3. InOnePlace(run[n], worker[n], results[n]) => InOnePlace(run[n], worker'[n], results[n])
    BY <2>2 DEF InOnePlace
  <2>4. ResultsOK(run[n], worker'[n], results[n]) BY <1>0, <2>2, <2>3 DEF ResultsOK
  <2> QED BY <1>0, <1>1, <1>2, <2>1, <2>4 DEF RunOK
<1> QED BY <1>3, <1>4

(* ------------------------------- the theorems -------------------------- *)

Inv == ScenariosTypeOK /\ ApprovalInv /\ RunsInv /\ PlanInv

LEMMA InitInv == Init => Inv
<1> SUFFICES ASSUME Init PROVE Inv OBVIOUS
<1>1. ScenariosTypeOK
  <2>1. /\ head \in [Scenarios -> [version : Nat, review : ReviewState,
                                   execution : {"not_run", "executed", "evaluated"}]]
    BY DEF Init, ScenariosInit, Absent, ReviewState
  <2>2. \A s \in DOMAIN Retained : <<Retained[s]>> \in Seq(Version) /\ Retained[s] \in Version
    BY ScenariosAssumption
  <2>3. versions \in [Scenarios -> Seq(Version)] BY <2>2 DEF Init, ScenariosInit
  <2>4. \A s \in Scenarios : Len(versions[s]) = head[s].version
    BY DEF Init, ScenariosInit, Absent
  <2>5. reviewed \subseteq Scenarios \X Contents \X Bases
    BY <2>2, ScenariosAssumption DEF Init, ScenariosInit, Version
  <2> QED BY <2>1, <2>3, <2>4, <2>5 DEF Init, ScenariosInit, ScenariosTypeOK
<1>2. ApprovalInv
  <2> SUFFICES ASSUME NEW s \in Scenarios, NEW v \in 1..Len(versions[s])
               PROVE  WasReviewed(s, versions[s][v])
    BY DEF ApprovalInv
  <2>1. s \in DOMAIN Retained BY DEF Init, ScenariosInit
  <2>2. versions[s] = <<Retained[s]>> /\ v = 1 BY <2>1 DEF Init, ScenariosInit
  <2>3. versions[s][v] = Retained[s] /\ Retained[s] \in Version BY <2>1, <2>2, ScenariosAssumption
  <2>4. <<s, Retained[s].content, Retained[s].basis>> \in reviewed
    BY <2>1 DEF Init, ScenariosInit
  <2> QED BY <2>3, <2>4 DEF WasReviewed, Version
<1>3. /\ NoRun \in RunRecord /\ NoRun.status = "none" /\ NoRun.phase = "none" /\ NoRun.spent = 0
      /\ NoRun.threw = FALSE /\ \A s \in Scenarios : NoRun.plan[s] = 0
  <2>1. <<>> \in Seq(Scenarios) /\ [s \in Scenarios |-> 0] \in [Scenarios -> Nat] OBVIOUS
  <2> QED BY <2>1 DEF NoRun, RunRecord
<1>4. \A n \in Runs : /\ run[n] = NoRun /\ worker[n] = [w \in Workers |-> Out]
                      /\ results[n] = [s \in Scenarios |-> <<>>]
  BY DEF Init
<1>5. PlanInv BY <1>3, <1>4 DEF PlanInv
<1>6. Sound(NoRun) BY <1>3, RunsAssumption DEF Sound
<1>7. /\ [w \in Workers |-> Out] \in [Workers -> WorkerRecord]
      /\ [s \in Scenarios |-> <<>>] \in [Scenarios -> Seq(Outcome)]
  BY OutTyped
<1>8. \A n \in Runs : RunOK(run[n], worker[n], results[n])
  BY <1>3, <1>4, <1>6, <1>7, OutTyped DEF RunOK, ResultsOK
<1>9. RunsInv BY <1>3, <1>7, <1>8 DEF Init, RunsInv
<1> QED BY <1>1, <1>2, <1>5, <1>9 DEF Inv

LEMMA StepInv == Inv /\ [Next]_vars => Inv'
<1> SUFFICES ASSUME Inv, [Next]_vars PROVE Inv' OBVIOUS
<1> USE DEF Inv
<1>1. CASE ScenarioChanges
  <2>1. ScenariosTypeOK' /\ ApprovalInv' /\ Grows BY <1>1, ScenariosKeep DEF ScenarioChanges
  <2>2. UNCHANGED runVars BY <1>1 DEF ScenarioChanges
  <2> QED BY <2>1, <2>2, RunsFrame, PlanStays
<1>2. ASSUME NEW n \in Runs, NEW k \in 1..Cardinality(Scenarios),
             NEW queue \in [1..k -> Scenarios], startRun(n, queue)
      PROVE  Inv'
  <2>1. k \in Nat OBVIOUS
  <2>2. RunsInv' /\ PlanInv' BY <1>2, <2>1, StartKeeps
  <2>3. ScenariosTypeOK' /\ ApprovalInv'
    <3>1. UNCHANGED scenarioVars /\ loaded \in Bases \cup {"none"}
      BY <1>2 DEF startRun, ScenariosTypeOK
    <3> QED BY <3>1, FrozenKeeps DEF scenarioVars
  <2> QED BY <2>2, <2>3
<1>3. ASSUME NEW n \in Runs, cancelRun(n) PROVE Inv'
  <2>1. RunsInv' /\ \A m \in Runs : run'[m].plan = run[m].plan BY <1>3, RowSteps, MovesKeeps
  <2>2. UNCHANGED scenarioVars /\ loaded \in Bases \cup {"none"}
    BY <1>3 DEF cancelRun, ScenariosTypeOK
  <2>3. ScenariosTypeOK' /\ ApprovalInv' /\ Grows BY <2>2, FrozenKeeps DEF scenarioVars
  <2> QED BY <2>1, <2>3, PlanStays
<1>4. ASSUME NEW n \in Runs, Answers(n) PROVE Inv'
  <2>1. RunsInv' /\ \A m \in Runs : run'[m].plan = run[m].plan BY <1>4, AnswersMove, MovesKeeps
  <2>2. ScenariosTypeOK' /\ ApprovalInv' /\ Grows BY <1>4, AnswersSeen, SeenKeeps
  <2> QED BY <2>1, <2>2, PlanStays
<1>5. ASSUME UNCHANGED <<scenarioVars, runVars>> PROVE Inv'
  <2>1. ScenariosTypeOK' /\ ApprovalInv' /\ Grows
    <3>1. loaded \in Bases \cup {"none"} BY DEF ScenariosTypeOK
    <3> QED BY <1>5, <3>1, FrozenKeeps DEF scenarioVars
  <2>2. UNCHANGED runVars BY <1>5
  <2> QED BY <2>1, <2>2, RunsFrame, PlanStays
<1>6. ASSUME NEW s, NEW v, NEW status,
             updateFinding(s, v, status) \/ acknowledgeOccurrences(s, v)
      PROVE  Inv'
  <2>1. UNCHANGED <<scenarioVars, runVars>> BY <1>6 DEF updateFinding, acknowledgeOccurrences
  <2> QED BY <1>5, <2>1
<1>7. CASE Restart
  <2>1. RunsInv' /\ \A m \in Runs : run'[m].plan = run[m].plan BY <1>7, RestartKeeps
  <2>2. ScenariosTypeOK' /\ ApprovalInv' /\ Grows BY <1>7, FrozenKeeps DEF Restart
  <2> QED BY <2>1, <2>2, PlanStays
<1>8. CASE UNCHANGED vars
  <2>1. UNCHANGED <<scenarioVars, runVars>> BY <1>8 DEF vars
  <2> QED BY <1>5, <2>1
<1> QED BY <1>1, <1>2, <1>3, <1>4, <1>6, <1>7, <1>8 DEF Next

LEMMA SpecInv == Spec => []Inv
<1>1. Init => Inv BY InitInv
<1>2. Inv /\ [Next]_vars => Inv' BY StepInv
<1> QED BY <1>1, <1>2, PTL DEF Spec

\* However many workers share it and whatever is redirected, the request budget is never overshot,
\* and what the plan set aside for cleanup is left for it (Budget, runSecurityRun.ts).
THEOREM BudgetNeverExceeded == Spec => []BudgetKept
<1>1. Inv => BudgetKept BY DEF Inv, RunsInv, RunOK, Sound, BudgetKept
<1> QED BY <1>1, SpecInv, PTL

\* A planned scenario's content was approved by a reviewer, for the operation it was planned for
\* unless an edit of its wording carried the approval there (planRun, reviewService.ts).
THEOREM OnlyApprovedContentRuns == Spec => []ApprovedContentOnly
<1>1. Inv => ApprovedContentOnly
  BY DEF Inv, PlanInv, ApprovedContentOnly, WasReviewed, Planned, PlannedVersion
<1> QED BY <1>1, SpecInv, PTL

\* Whatever stopped its workers, a run that is over has exactly one result for each scenario it
\* planned, unless one of them threw (runSecurityRun.ts).
THEOREM EveryScenarioAnswered == Spec => []OneResultEach
<1>1. Inv => OneResultEach
  BY DEF Inv, RunsInv, RunOK, ResultsOK, OneResultEach, Planned
<1> QED BY <1>1, SpecInv, PTL

(* --------------------------- type correctness -------------------------- *)

FindingRecord == [status : {"none", "open", "dismissed", "resolved"}, verified : BOOLEAN,
                  unreviewed : BOOLEAN, occurrences : Nat]
FindingsTyped ==
  /\ DOMAIN finding = Scenarios /\ finding = [s \in Scenarios |-> finding[s]]
  /\ DOMAIN since = Scenarios /\ since = [s \in Scenarios |-> since[s]]
  /\ \A s \in Scenarios : finding[s] \in [VersionsOf(s) -> FindingRecord]
  /\ \A s \in Scenarios : since[s] \in [VersionsOf(s) -> {"none", "passed", "failed"}]

LEMMA FindingFailed ==
  ASSUME NEW f \in FindingRecord
  PROVE  recordFailure(f) \in FindingRecord /\ recordPass(f) \in FindingRecord
<1>1. f.occurrences + 1 \in Nat BY DEF FindingRecord
<1> DEFINE k == f.occurrences + 1
           st == IF f.status \in {"none", "resolved"} THEN "open" ELSE f.status
           u == f.unreviewed \/ f.status = "dismissed"
           p == f.verified \/ f.status = "resolved"
<1>2. st \in {"none", "open", "dismissed", "resolved"} /\ u \in BOOLEAN /\ p \in BOOLEAN
  BY DEF FindingRecord
<1>3. /\ recordFailure(f) = [f EXCEPT !.status = st, !.unreviewed = u, !.occurrences = k]
      /\ recordPass(f) = [f EXCEPT !.verified = p]
  BY DEF recordFailure, recordPass, FindingRecord
<1> HIDE DEF k, st, u, p
<1>4. k \in Nat BY <1>1 DEF k
<1> QED BY <1>2, <1>3, <1>4 DEF FindingRecord

\* A change of one finding, and of what it remembers of the last verdict.
LEMMA FindingSet ==
  ASSUME FindingsTyped, NEW s, NEW v, NEW f, NEW o \in {"none", "passed", "failed"},
         s \in Scenarios /\ v \in VersionsOf(s) => f \in FindingRecord,
         finding' = [finding EXCEPT ![s][v] = f],
         since' = [since EXCEPT ![s][v] = o] \/ UNCHANGED since
  PROVE  FindingsTyped'
<1>1. CASE s \in Scenarios
  <2>1. /\ finding' = [finding EXCEPT ![s] = [finding[s] EXCEPT ![v] = f]]
        /\ [finding[s] EXCEPT ![v] = f] \in [VersionsOf(s) -> FindingRecord]
    BY <1>1 DEF FindingsTyped
  <2>2. [since[s] EXCEPT ![v] = o] \in [VersionsOf(s) -> {"none", "passed", "failed"}]
    BY <1>1 DEF FindingsTyped
  <2>3. /\ DOMAIN finding' = Scenarios /\ finding' = [t \in Scenarios |-> finding'[t]]
        /\ \A t \in Scenarios : finding'[t] \in [VersionsOf(t) -> FindingRecord]
    BY <1>1, <2>1 DEF FindingsTyped
  <2>4. /\ DOMAIN since' = Scenarios /\ since' = [t \in Scenarios |-> since'[t]]
        /\ \A t \in Scenarios : since'[t] \in [VersionsOf(t) -> {"none", "passed", "failed"}]
    <3>1. CASE UNCHANGED since BY <3>1 DEF FindingsTyped
    <3>2. CASE since' = [since EXCEPT ![s] = [since[s] EXCEPT ![v] = o]]
      BY <1>1, <2>2, <3>2 DEF FindingsTyped
    <3> QED BY <3>1, <3>2
  <2> QED BY <2>3, <2>4 DEF FindingsTyped, VersionsOf
<1>2. CASE s \notin Scenarios
  <2>1. finding' = finding /\ since' = since BY <1>2 DEF FindingsTyped
  <2> QED BY <2>1 DEF FindingsTyped, VersionsOf
<1> QED BY <1>1, <1>2

LEMMA FindingsStay == ASSUME FindingsTyped, UNCHANGED findingVars PROVE FindingsTyped'
BY DEF FindingsTyped, findingVars, VersionsOf

LEMMA RecordFindings ==
  ASSUME FindingsTyped, NEW n, NEW w, NEW outcome, NEW judged, record(n, w, outcome, judged)
  PROVE  FindingsTyped'
<1> DEFINE s == worker[n][w].entry
           v == run[n].plan[s]
<1>1. CASE judged
  <2>1. recordFinding(s, v, outcome) BY <1>1 DEF record
  <2> DEFINE f == CASE outcome = "failed" -> recordFailure(finding[s][v])
                    [] outcome = "passed" -> recordPass(finding[s][v])
                    [] OTHER -> finding[s][v]
  <2>2. s \in Scenarios /\ v \in VersionsOf(s) => f \in FindingRecord
    <3>1. ASSUME s \in Scenarios, v \in VersionsOf(s) PROVE finding[s][v] \in FindingRecord
      BY <3>1 DEF FindingsTyped
    <3> QED BY <3>1, FindingFailed
  <2>3. /\ finding' = [finding EXCEPT ![s][v] = f]
        /\ \/ outcome \in {"passed", "failed"} /\ since' = [since EXCEPT ![s][v] = outcome]
           \/ UNCHANGED since
    BY <2>1 DEF recordFinding
  <2> HIDE DEF s, v, f
  <2>4. CASE outcome \in {"passed", "failed"} /\ since' = [since EXCEPT ![s][v] = outcome]
    BY <2>2, <2>3, <2>4, FindingSet
  <2>5. CASE UNCHANGED since BY <2>2, <2>3, <2>5, FindingSet
  <2> QED BY <2>3, <2>4, <2>5
<1>2. CASE ~judged
  <2>1. UNCHANGED findingVars BY <1>2 DEF record
  <2> QED BY <2>1, FindingsStay
<1> QED BY <1>1, <1>2

LEMMA AnswersFindings ==
  ASSUME FindingsTyped, NEW n \in Runs, Answers(n)
  PROVE  FindingsTyped'
<1>1. ASSUME NEW w \in Workers, WorkerStep(n, w) PROVE FindingsTyped'
  <2>1. CASE \/ NotBuilt(n, w) \/ AttemptStops(n, w) \/ SendAborted(n, w)
             \/ \E outcome \in {"passed", "failed", "inconclusive"}, judged \in BOOLEAN :
                  Evaluates(n, w, outcome, judged)
             \/ \E outcome \in {"blocked", "errored"} : SendFails(n, w, outcome)
    BY <2>1, RecordFindings DEF NotBuilt, AttemptStops, SendAborted, Evaluates, SendFails
  <2>2. CASE \/ WorkerTakes(n, w) \/ Sends(n, w) \/ RedirectFollowed(n, w) \/ WorkerThrows(n, w)
             \/ \E creates \in BOOLEAN : ResponseArrives(n, w, creates)
    BY <2>2, FindingsStay
       DEF WorkerTakes, Sends, RedirectFollowed, WorkerThrows, ResponseArrives
  <2> QED BY <1>1, <2>1, <2>2 DEF WorkerStep
<1>2. CASE \/ PoolEnds(n) \/ CleanupSkips(n) \/ CleanupSends(n) \/ CleanupRedirected(n)
           \/ CleanupAnswered(n) \/ Settles(n)
  BY <1>2, FindingsStay
     DEF PoolEnds, CleanupSkips, CleanupSends, CleanupRedirected, CleanupAnswered, Settles
<1> QED BY <1>1, <1>2 DEF Answers

LEMMA EngineerFindings ==
  ASSUME FindingsTyped, NEW s \in Scenarios, NEW v \in VersionsOf(s),
         NEW status \in {"open", "dismissed", "resolved"},
         updateFinding(s, v, status) \/ acknowledgeOccurrences(s, v)
  PROVE  FindingsTyped'
<1> DEFINE f == withStatus(finding[s][v], status)
           g == [finding[s][v] EXCEPT !.unreviewed = FALSE]
<1>1. finding[s][v] \in FindingRecord BY DEF FindingsTyped
<1>2. f \in FindingRecord /\ g \in FindingRecord BY <1>1 DEF FindingRecord, withStatus
<1>3. since' = [since EXCEPT ![s][v] = "none"] BY DEF updateFinding, acknowledgeOccurrences
<1>4. CASE updateFinding(s, v, status)
  <2>1. finding' = [finding EXCEPT ![s][v] = f] BY <1>4 DEF updateFinding
  <2> HIDE DEF f
  <2> QED BY <1>2, <1>3, <2>1, FindingSet
<1>5. CASE acknowledgeOccurrences(s, v)
  <2>1. finding' = [finding EXCEPT ![s][v] = g]
    BY <1>1, <1>5 DEF acknowledgeOccurrences, FindingsTyped
  <2> HIDE DEF g
  <2> QED BY <1>2, <1>3, <2>1, FindingSet
<1> QED BY <1>4, <1>5

LEMMA SpecFindingsTyped == Spec => []FindingsTyped
<1>1. Init => FindingsTyped
  BY DEF Init, FindingsTyped, NoFinding, FindingRecord
<1>2. FindingsTyped /\ [Next]_vars => FindingsTyped'
  <2> SUFFICES ASSUME FindingsTyped, [Next]_vars PROVE FindingsTyped' OBVIOUS
  <2>1. CASE ScenarioChanges BY <2>1, FindingsStay DEF ScenarioChanges
  <2>2. ASSUME NEW n \in Runs, NEW k \in 1..Cardinality(Scenarios),
               NEW queue \in [1..k -> Scenarios], startRun(n, queue)
        PROVE  FindingsTyped'
    BY <2>2, FindingsStay DEF startRun
  <2>3. ASSUME NEW n \in Runs, cancelRun(n) PROVE FindingsTyped'
    BY <2>3, FindingsStay DEF cancelRun
  <2>4. ASSUME NEW n \in Runs, Answers(n) PROVE FindingsTyped' BY <2>4, AnswersFindings
  <2>5. ASSUME NEW s \in Scenarios, NEW v \in VersionsOf(s),
               NEW status \in {"open", "dismissed", "resolved"},
               updateFinding(s, v, status) \/ acknowledgeOccurrences(s, v)
        PROVE  FindingsTyped'
    BY <2>5, EngineerFindings
  <2>6. CASE Restart BY <2>6, FindingsStay DEF Restart
  <2>7. CASE UNCHANGED vars BY <2>7, FindingsStay DEF vars
  <2> QED BY <2>1, <2>2, <2>3, <2>4, <2>5, <2>6, <2>7 DEF Next
<1> QED BY <1>1, <1>2, PTL DEF Spec

\* Every variable keeps its type, the rows of runs and the findings included.
THEOREM TypeCorrect == Spec => []TypeOK
<1>1. Inv /\ FindingsTyped => TypeOK
  BY DEF Inv, RunsInv, FindingsTyped, TypeOK, RunsTypeOK, RunRecord, WorkerRecord, FindingRecord
<1> QED BY <1>1, SpecInv, SpecFindingsTyped, PTL
=============================================================================
