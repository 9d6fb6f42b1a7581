------------------------ MODULE FailureAnalysisProofs ------------------------
(***************************************************************************)
(* Proofs about the provider and the analyses that use it, for any set of  *)
(* requests, analyses and sessions. The argument: whoever waits behind the *)
(* gate has seen every generation that is still running, because only the  *)
(* task whose turn it is can add one; so when the gate opens the runtime   *)
(* is idle, and it is still idle when that task starts to generate.        *)
(***************************************************************************)
EXTENDS FailureAnalysis, TLAPS

\* The task whose turn it is, and what the runtime may be computing at each of its stages.
TurnInv ==
  /\ current = Idle <=> stage = Idle
  /\ stage = "gated" => gate = held
  /\ stage = "loading" => runtime \cap Requests = {}
  /\ stage = "generating" => runtime = {current}
  /\ stage # "generating" => runtime \cap Requests \subseteq held

\* The load, and what readiness says of it.
LoadInv ==
  /\ Canary \in runtime => load \in {"canary", "drain"}
  /\ runtime \cap Requests # {} => load = "resolved"
  /\ readiness.state = "ready" <=> load = "resolved"
  /\ readiness.device = "accelerator" => readiness.state = "ready" /\ verification = "passed"

\* Requests are in one place at a time.
PlaceInv ==
  /\ \A i \in 1..Len(queue) : answer[queue[i]] = "pending" /\ queue[i] # current
  /\ \A i, j \in 1..Len(queue) : queue[i] = queue[j] => i = j
  /\ current # Idle => answer[current] = "pending"
  /\ \A r \in held : answer[r] = "TIMEOUT"

ProviderInv == TurnInv /\ LoadInv /\ PlaceInv /\ OneGeneration

\* In a session that was not evicted under it, an analysis is the one the registry names, and what
\* it read before its awaits is still what is stored.
AnalysisInv ==
  \A s \in Sessions \ evicted : \A a \in Analyses :
    InFlight(a) /\ analysis[a].session = s =>
      /\ registry[s].by = a /\ registry[s].phase # "none"
      /\ analysis[a].run \in Runs
      /\ rows[s][analysis[a].run] = analysis[a].previous

Inv == TypeOK /\ ProviderInv /\ AnalysisInv

(* --------------------------- the type invariant ------------------------ *)

LEMMA LoadTypes ==
  ASSUME ProviderTypeOK, LoadStep PROVE ProviderTypeOK'
<1> USE DEF ProviderTypeOK, LoadPhase, Readiness, loadVars, queueVars, markReady
<1>1. CASE AcceleratorLoads BY <1>1 DEF AcceleratorLoads
<1>2. CASE AcceleratorLoadFails BY <1>2 DEF AcceleratorLoadFails
<1>3. CASE CanaryPasses BY <1>3 DEF CanaryPasses
<1>4. CASE CanaryFails BY <1>4 DEF CanaryFails
<1>5. CASE CanaryTimesOut BY <1>5 DEF CanaryTimesOut
<1>6. CASE CanaryDrains BY <1>6 DEF CanaryDrains
<1>7. CASE releaseRejectedEngine BY <1>7 DEF releaseRejectedEngine
<1>8. CASE CpuLoads BY <1>8 DEF CpuLoads
<1>9. CASE CpuLoadFails BY <1>9 DEF CpuLoadFails
<1> QED BY <1>1, <1>2, <1>3, <1>4, <1>5, <1>6, <1>7, <1>8, <1>9 DEF LoadStep

LEMMA EngineTypes ==
  ASSUME ProviderTypeOK, ensureEngine, UNCHANGED <<queueVars, runtime, answer>>
  PROVE  ProviderTypeOK'
BY DEF ProviderTypeOK, ensureEngine, markLoading, LoadPhase, Readiness, loadVars, queueVars

LEMMA InferTypes ==
  ASSUME ProviderTypeOK, NEW r \in Requests, infer(r) PROVE ProviderTypeOK'
BY DEF ProviderTypeOK, infer, loadVars, Answers

LEMMA QueueTypes ==
  ASSUME ProviderTypeOK, TurnInv, QueueStep \/ GenerationStarts PROVE ProviderTypeOK'
<1> USE CanaryAssumption DEF ProviderTypeOK, LoadPhase, Readiness, loadVars, queueVars, Answers,
                             answerCurrent, Idle
<1>1. CASE TailSettles BY <1>1 DEF TailSettles
<1>2. CASE TaskStarts BY <1>2 DEF TaskStarts, ensureEngine, markLoading
<1>3. CASE EngineUnavailable BY <1>3 DEF EngineUnavailable, markUnavailable
<1>4. CASE GenerationSettles BY <1>4 DEF GenerationSettles
<1>5. CASE InferenceTimesOut BY <1>5 DEF InferenceTimesOut, TurnInv
<1>6. ASSUME NEW r \in Requests, AbandonedSettles(r) PROVE ProviderTypeOK'
  BY <1>6 DEF AbandonedSettles
<1>7. CASE GenerationStarts BY <1>7 DEF GenerationStarts, TurnInv
<1> QED BY <1>1, <1>2, <1>3, <1>4, <1>5, <1>6, <1>7 DEF QueueStep

\* The part of the type invariant that is about analyses.
AnalysisTypes ==
  /\ runOf \in [Sessions -> 0..MaxRuns] /\ runsMade \in [Sessions -> 0..MaxRuns]
  /\ registry \in [Sessions -> [phase : {"none", "waiting-for-ai", "generating"},
                                by : Analyses \cup {Idle}]]
  /\ analysis \in [Analyses -> [at : {"idle", "budget", "infer", "done"},
                                session : Sessions \cup {Idle}, run : 0..MaxRuns,
                                previous : Explanation]]
  /\ rows \in [Sessions -> [Runs -> Explanation]]
  /\ evicted \in SUBSET Sessions

LEMMA SettleTypes ==
  ASSUME AnalysisTypes, NEW a \in Analyses, NEW e \in {"available", "unavailable"},
         settleAnalysis(a, e), UNCHANGED <<runOf, runsMade, evicted>>
  PROVE  AnalysisTypes'
<1> USE DEF AnalysisTypes
<1>1. registry' \in [Sessions -> [phase : {"none", "waiting-for-ai", "generating"},
                                  by : Analyses \cup {Idle}]]
  BY DEF settleAnalysis, NoEntry
<1>2. analysis' \in [Analyses -> [at : {"idle", "budget", "infer", "done"},
                                  session : Sessions \cup {Idle}, run : 0..MaxRuns,
                                  previous : Explanation]]
  BY DEF settleAnalysis
<1>3. rows' \in [Sessions -> [Runs -> Explanation]]
  BY DEF settleAnalysis, Explanation
<1> QED BY <1>1, <1>2, <1>3

LEMMA InitInv == Init => Inv
<1> SUFFICES ASSUME Init PROVE Inv OBVIOUS
<1> USE CanaryAssumption, AnalysesAssumption DEF Init, ProviderInit
<1>1. ProviderTypeOK BY DEF ProviderTypeOK, LoadPhase, Readiness, Answers, Idle
<1>2. AnalysisTypes BY DEF AnalysisTypes, NoEntry, Dormant, Explanation
<1>3. TurnInv /\ LoadInv /\ PlaceInv /\ OneGeneration
  BY DEF TurnInv, LoadInv, PlaceInv, OneGeneration, Idle
<1>4. AnalysisInv BY DEF AnalysisInv, InFlight, Dormant
<1> QED BY <1>1, <1>2, <1>3, <1>4 DEF Inv, TypeOK, ProviderInv, AnalysisTypes

(* -------------------------- the provider's invariant ------------------- *)

LEMMA LoadKeeps ==
  ASSUME ProviderTypeOK, ProviderInv, LoadStep PROVE ProviderInv'
<1> USE CanaryAssumption
<1>1. UNCHANGED <<queueVars, answer>> /\ UNCHANGED <<queue, current, stage, gate, held>>
  BY DEF LoadStep, AcceleratorLoads, AcceleratorLoadFails, CanaryPasses, CanaryFails,
         CanaryTimesOut, CanaryDrains, releaseRejectedEngine, CpuLoads, CpuLoadFails, queueVars
<1>2. PlaceInv' BY <1>1 DEF ProviderInv, PlaceInv
<1>3. /\ runtime' \cap Requests = runtime \cap Requests
      /\ runtime' # runtime => runtime \cap Requests = {}
      /\ OneGeneration'
  <2> USE DEF ProviderInv, LoadInv, OneGeneration, ProviderTypeOK
  <2>1. CASE AcceleratorLoads BY <2>1 DEF AcceleratorLoads
  <2>2. CASE CanaryPasses BY <2>2 DEF CanaryPasses
  <2>3. CASE CanaryFails BY <2>3 DEF CanaryFails
  <2>4. CASE CanaryDrains BY <2>4 DEF CanaryDrains
  <2>5. CASE UNCHANGED runtime BY <2>5
  <2> QED BY <2>1, <2>2, <2>3, <2>4, <2>5
          DEF LoadStep, AcceleratorLoadFails, CanaryTimesOut, releaseRejectedEngine, CpuLoads,
              CpuLoadFails
<1>4. TurnInv'
  <2>1. stage = "generating" => current \in runtime \cap Requests
    BY DEF ProviderInv, TurnInv, ProviderTypeOK, Idle
  <2> QED BY <1>1, <1>3, <2>1 DEF ProviderInv, TurnInv
<1>5. LoadInv'
  <2> USE DEF ProviderInv, LoadInv, ProviderTypeOK, LoadPhase, Readiness, markReady
  <2>1. CASE AcceleratorLoads BY <2>1 DEF AcceleratorLoads
  <2>2. CASE AcceleratorLoadFails BY <2>2 DEF AcceleratorLoadFails
  <2>3. CASE CanaryPasses BY <2>3 DEF CanaryPasses
  <2>4. CASE CanaryFails BY <2>4 DEF CanaryFails
  <2>5. CASE CanaryTimesOut BY <2>5 DEF CanaryTimesOut
  <2>6. CASE CanaryDrains BY <2>6 DEF CanaryDrains
  <2>7. CASE releaseRejectedEngine BY <2>7 DEF releaseRejectedEngine
  <2>8. CASE CpuLoads BY <2>8 DEF CpuLoads
  <2>9. CASE CpuLoadFails BY <2>9 DEF CpuLoadFails
  <2> QED BY <2>1, <2>2, <2>3, <2>4, <2>5, <2>6, <2>7, <2>8, <2>9 DEF LoadStep
<1> QED BY <1>2, <1>3, <1>4, <1>5 DEF ProviderInv

LEMMA EngineKeeps ==
  ASSUME ProviderTypeOK, ProviderInv, ensureEngine, UNCHANGED <<queueVars, runtime, answer>>
  PROVE  ProviderInv'
<1>1. UNCHANGED <<queue, current, stage, gate, held, runtime, answer>> BY DEF queueVars
<1>2. TurnInv' /\ PlaceInv' /\ OneGeneration'
  BY <1>1 DEF ProviderInv, TurnInv, PlaceInv, OneGeneration
<1>3. LoadInv'
  BY <1>1 DEF ProviderInv, LoadInv, ensureEngine, markLoading, loadVars, ProviderTypeOK,
              Readiness, LoadPhase
<1> QED BY <1>2, <1>3 DEF ProviderInv

LEMMA InferKeeps ==
  ASSUME ProviderTypeOK, ProviderInv, NEW r \in Requests, infer(r)
  PROVE  ProviderInv'
<1> USE CanaryAssumption
<1>1. TurnInv' /\ LoadInv' /\ OneGeneration'
  BY DEF ProviderInv, TurnInv, LoadInv, OneGeneration, infer, loadVars
<1>2. \A x \in Requests : x # r => answer'[x] = answer[x]
  BY DEF infer, ProviderTypeOK
<1>3. answer[r] = "none" /\ UNCHANGED <<current, held>> BY DEF infer
<1>4. r # current /\ r \notin held /\ \A i \in 1..Len(queue) : queue[i] # r
  BY <1>3, r # Idle DEF ProviderInv, PlaceInv, Idle
<1>5. /\ current # Idle => answer'[current] = "pending"
      /\ \A x \in held' : answer'[x] = "TIMEOUT"
  BY <1>2, <1>3, <1>4 DEF ProviderInv, PlaceInv, ProviderTypeOK
<1>6. CASE queue' = queue
  BY <1>2, <1>3, <1>4, <1>5, <1>6, <1>1 DEF ProviderInv, PlaceInv, ProviderTypeOK
<1>7. CASE queue' = Append(queue, r) /\ answer' = [answer EXCEPT ![r] = "pending"]
  <2>1. /\ Len(queue') = Len(queue) + 1 /\ Len(queue) \in Nat
        /\ \A i \in 1..Len(queue) : queue'[i] = queue[i] /\ queue[i] \in Requests
        /\ queue'[Len(queue) + 1] = r /\ answer'[r] = "pending"
    BY <1>7 DEF ProviderTypeOK
  <2>2. \A i \in 1..Len(queue') : answer'[queue'[i]] = "pending" /\ queue'[i] # current'
    BY <2>1, <1>2, <1>3, <1>4 DEF ProviderInv, PlaceInv
  <2>3. \A i, j \in 1..Len(queue') : queue'[i] = queue'[j] => i = j
    BY <2>1, <1>4 DEF ProviderInv, PlaceInv
  <2> QED BY <1>1, <1>3, <1>5, <2>2, <2>3 DEF ProviderInv, PlaceInv
<1> QED BY <1>6, <1>7 DEF infer

LEMMA TailKeeps ==
  ASSUME ProviderTypeOK, ProviderInv, TailSettles PROVE ProviderInv'
<1> USE CanaryAssumption
<1>1. /\ Len(queue) \in Nat \ {0} /\ Len(queue') = Len(queue) - 1 /\ current' = queue[1]
      /\ \A i \in 1..Len(queue') : queue'[i] = queue[i + 1] /\ i + 1 \in 1..Len(queue)
      /\ queue[1] \in Requests
  BY DEF TailSettles, ProviderTypeOK
<1>2. PlaceInv' BY <1>1 DEF ProviderInv, PlaceInv, TailSettles, Idle
<1>3. LoadInv' /\ OneGeneration' BY DEF ProviderInv, LoadInv, OneGeneration, TailSettles, loadVars
<1>4. TurnInv' BY <1>1 DEF ProviderInv, TurnInv, TailSettles, Idle
<1> QED BY <1>2, <1>3, <1>4 DEF ProviderInv

LEMMA AnswerKeepsPlace ==
  ASSUME ProviderTypeOK, PlaceInv, stage # Idle, current # Idle,
         NEW outcome, answerCurrent(outcome), UNCHANGED queue,
         \/ UNCHANGED held
         \/ held' = held \cup {current} /\ outcome = "TIMEOUT"
  PROVE  PlaceInv'
<1>1. /\ answer'[current] = outcome /\ current \in Requests /\ current' = Idle
      /\ \A x \in Requests : x # current => answer'[x] = answer[x]
  BY DEF answerCurrent, ProviderTypeOK
<1>2. \A i \in 1..Len(queue) : queue[i] \in Requests BY DEF ProviderTypeOK
<1>3. \A i \in 1..Len(queue') : answer'[queue'[i]] = "pending" /\ queue'[i] # current'
  BY <1>1, <1>2, CanaryAssumption DEF PlaceInv, Idle
<1>4. \A x \in held' : answer'[x] = "TIMEOUT"
  BY <1>1 DEF PlaceInv, ProviderTypeOK
<1> QED BY <1>1, <1>3, <1>4 DEF PlaceInv

LEMMA QueueKeeps ==
  ASSUME ProviderTypeOK, ProviderInv, QueueStep \/ GenerationStarts PROVE ProviderInv'
<1> USE CanaryAssumption
<1>0. /\ stage # Idle => current \in Requests
      /\ stage = "generating" => Canary \notin runtime /\ load = "resolved"
      /\ current # Idle => stage # Idle
      /\ stage # Idle => current # Idle
  BY DEF ProviderInv, TurnInv, LoadInv, ProviderTypeOK, Idle
<1>1. CASE TailSettles BY <1>1, TailKeeps
<1>2. CASE TaskStarts
  <2>1. PlaceInv' /\ OneGeneration' BY <1>2 DEF ProviderInv, PlaceInv, OneGeneration, TaskStarts
  <2>2. LoadInv'
    BY <1>2 DEF ProviderInv, LoadInv, TaskStarts, ensureEngine, markLoading, loadVars,
                ProviderTypeOK, Readiness, LoadPhase
  <2>3. TurnInv' BY <1>0, <1>2 DEF ProviderInv, TurnInv, TaskStarts, Idle
  <2> QED BY <2>1, <2>2, <2>3 DEF ProviderInv
<1>3. CASE EngineUnavailable
  <2>1. stage = "loading" /\ stage # Idle BY <1>3 DEF EngineUnavailable, Idle
  <2>2. PlaceInv'
    BY <1>0, <1>3, <2>1, AnswerKeepsPlace DEF EngineUnavailable, ProviderInv
  <2>3. OneGeneration' BY <1>3 DEF ProviderInv, OneGeneration, EngineUnavailable
  <2>4. LoadInv'
    BY <1>3 DEF ProviderInv, LoadInv, EngineUnavailable, markUnavailable, ProviderTypeOK, Readiness
  <2>5. TurnInv' BY <1>3 DEF ProviderInv, TurnInv, EngineUnavailable, answerCurrent, Idle
  <2> QED BY <2>2, <2>3, <2>4, <2>5 DEF ProviderInv
<1>4. CASE GenerationSettles
  <2>1. stage = "generating" /\ stage # Idle BY <1>4 DEF GenerationSettles, Idle
  <2>2. PlaceInv'
    <3>1. PICK outcome \in {"success", "PROVIDER_UNAVAILABLE"} : answerCurrent(outcome)
      BY <1>4 DEF GenerationSettles
    <3> QED BY <1>0, <1>4, <2>1, <3>1, AnswerKeepsPlace DEF GenerationSettles, ProviderInv
  <2>3. runtime' = {} BY <1>4, <2>1 DEF ProviderInv, TurnInv, GenerationSettles
  <2>4. LoadInv' /\ OneGeneration'
    BY <1>4, <2>3 DEF ProviderInv, LoadInv, OneGeneration, GenerationSettles, loadVars
  <2>5. TurnInv' BY <1>4, <2>3 DEF TurnInv, GenerationSettles, answerCurrent, Idle
  <2> QED BY <2>2, <2>4, <2>5 DEF ProviderInv
<1>5. CASE InferenceTimesOut
  <2>1. stage = "generating" /\ stage # Idle BY <1>5 DEF InferenceTimesOut, Idle
  <2>2. PlaceInv'
    BY <1>0, <1>5, <2>1, AnswerKeepsPlace DEF InferenceTimesOut, ProviderInv
  <2>3. LoadInv' /\ OneGeneration'
    BY <1>5 DEF ProviderInv, LoadInv, OneGeneration, InferenceTimesOut, loadVars
  <2>4. TurnInv'
    BY <1>5, <2>1 DEF ProviderInv, TurnInv, InferenceTimesOut, answerCurrent, Idle
  <2> QED BY <2>2, <2>3, <2>4 DEF ProviderInv
<1>6. ASSUME NEW r \in Requests, AbandonedSettles(r) PROVE ProviderInv'
  <2>1. UNCHANGED <<useAccelerator, load, readiness, verification, queue, current, stage, gate,
                    held, answer>> /\ runtime' = runtime \ {r} /\ r \in runtime /\ r \in held
    BY <1>6 DEF AbandonedSettles, loadVars, queueVars
  <2>2. PlaceInv' BY <2>1 DEF ProviderInv, PlaceInv
  <2>3. LoadInv' /\ OneGeneration' BY <2>1 DEF ProviderInv, LoadInv, OneGeneration
  <2>4. stage # "generating" BY <1>0, <2>1 DEF ProviderInv, TurnInv, PlaceInv, Idle
  <2>5. TurnInv' BY <2>1, <2>4 DEF ProviderInv, TurnInv
  <2> QED BY <2>2, <2>3, <2>5 DEF ProviderInv
<1>7. CASE GenerationStarts
  <2>1. runtime = {}
    BY <1>7 DEF GenerationStarts, ProviderInv, TurnInv, LoadInv, ProviderTypeOK
  <2>2. runtime' = {current} /\ current \in Requests
    BY <1>0, <1>7, <2>1 DEF GenerationStarts, Idle
  <2>3. PlaceInv' BY <1>7 DEF GenerationStarts, ProviderInv, PlaceInv
  <2>4. LoadInv' /\ OneGeneration'
    BY <1>7, <2>2 DEF GenerationStarts, ProviderInv, LoadInv, OneGeneration, loadVars
  <2>5. TurnInv' BY <1>0, <1>7, <2>2 DEF GenerationStarts, ProviderInv, TurnInv, Idle
  <2> QED BY <2>3, <2>4, <2>5 DEF ProviderInv
<1> QED BY <1>1, <1>2, <1>3, <1>4, <1>5, <1>6, <1>7 DEF QueueStep

(* ----------------------------- every step ------------------------------ *)

\* What a step of the composition does to the provider.
LEMMA ProviderMoves ==
  ASSUME [Next]_vars
  PROVE  \/ UNCHANGED providerVars
         \/ ensureEngine /\ UNCHANGED <<queueVars, runtime, answer>>
         \/ \E r \in Requests : infer(r)
         \/ LoadStep \/ QueueStep \/ GenerationStarts
<1>1. CASE UNCHANGED vars BY <1>1 DEF vars
<1>2. ASSUME NEW s \in Sessions, RunFails(s) \/ SessionExpires(s) PROVE UNCHANGED providerVars
  BY <1>2 DEF RunFails, SessionExpires
<1>3. OtherInfers => \E r \in Requests : infer(r) BY DEF OtherInfers
<1>4. ASSUME NEW a \in Analyses, HandlerStep(a)
      PROVE UNCHANGED providerVars \/ \E r \in Requests : infer(r)
  BY <1>4, AnalysesAssumption DEF HandlerStep, PromptRefused, PromptSent, AnswerArrives
<1> QED BY <1>1, <1>2, <1>3, <1>4 DEF Next, OtherBudget, AnalysisBegins, ProviderStep

LEMMA ProviderKeeps ==
  ASSUME ProviderTypeOK, ProviderInv, [Next]_vars PROVE ProviderTypeOK' /\ ProviderInv'
<1>1. CASE UNCHANGED providerVars
  <2>1. UNCHANGED <<useAccelerator, load, readiness, verification, queue, current, stage, gate,
                    held, runtime, answer>>
    BY <1>1 DEF providerVars
  <2>2. ProviderTypeOK' BY <2>1 DEF ProviderTypeOK
  <2>3. TurnInv' /\ LoadInv' BY <2>1 DEF ProviderInv, TurnInv, LoadInv
  <2>4. PlaceInv' /\ OneGeneration' BY <2>1 DEF ProviderInv, PlaceInv, OneGeneration
  <2> QED BY <2>2, <2>3, <2>4 DEF ProviderInv
<1>2. CASE ensureEngine /\ UNCHANGED <<queueVars, runtime, answer>>
  BY <1>2, EngineTypes, EngineKeeps
<1>3. ASSUME NEW r \in Requests, infer(r) PROVE ProviderTypeOK' /\ ProviderInv'
  BY <1>3, InferTypes, InferKeeps
<1>4. CASE LoadStep BY <1>4, LoadTypes, LoadKeeps
<1>5. CASE QueueStep \/ GenerationStarts BY <1>5, QueueTypes, QueueKeeps DEF ProviderInv
<1> QED BY <1>1, <1>2, <1>3, <1>4, <1>5, ProviderMoves

LEMMA SettleKeeps ==
  ASSUME AnalysisTypes, AnalysisInv, NEW a \in Analyses, InFlight(a),
         NEW e \in {"available", "unavailable"}, settleAnalysis(a, e),
         UNCHANGED <<runOf, runsMade, evicted>>
  PROVE  /\ AnalysisInv'
         /\ \A s \in Sessions \ evicted, n \in Runs :
              rows[s][n] = "available" => rows'[s][n] = "available"
<1> DEFINE S == analysis[a].session
<1> USE DEF AnalysisTypes
<1>1. /\ \A s \in Sessions : s # S => registry'[s] = registry[s] /\ rows'[s] = rows[s]
      /\ \A b \in Analyses : b # a => analysis'[b] = analysis[b]
      /\ analysis'[a].at = "done"
  BY DEF settleAnalysis
<1>2. ASSUME NEW s \in Sessions \ evicted, NEW b \in Analyses,
             InFlight(b), analysis[b].session = s, b # a
      PROVE  s # S
  BY <1>2 DEF AnalysisInv
<1>3. AnalysisInv'
  <2> SUFFICES ASSUME NEW s \in Sessions \ evicted, NEW b \in Analyses,
                      InFlight(b)', analysis'[b].session = s
               PROVE  /\ registry'[s].by = b /\ registry'[s].phase # "none"
                      /\ analysis'[b].run \in Runs
                      /\ rows'[s][analysis'[b].run] = analysis'[b].previous
    BY DEF AnalysisInv
  <2>1. b # a BY <1>1 DEF InFlight
  <2>2. analysis'[b] = analysis[b] /\ InFlight(b) BY <1>1, <2>1 DEF InFlight
  <2>3. s # S BY <1>2, <2>1, <2>2
  <2> QED BY <1>1, <2>2, <2>3 DEF AnalysisInv
<1>4. ASSUME NEW s \in Sessions \ evicted, NEW n \in Runs, rows[s][n] = "available"
      PROVE  rows'[s][n] = "available"
  <2>1. CASE s # S BY <1>1, <1>4, <2>1
  <2>2. CASE s = S
    <3>1. analysis[a].run \in Runs /\ rows[s][analysis[a].run] = analysis[a].previous
      BY <2>2 DEF AnalysisInv
    <3>2. CASE n = analysis[a].run BY <1>4, <2>2, <3>1, <3>2 DEF settleAnalysis
    <3>3. CASE n # analysis[a].run BY <1>4, <2>2, <3>1, <3>3 DEF settleAnalysis
    <3> QED BY <3>2, <3>3
  <2> QED BY <2>1, <2>2
<1> QED BY <1>3, <1>4

\* Every step keeps the analyses' invariant, and a stored explanation of a live session.
LEMMA AnalysisKeeps ==
  ASSUME Inv, [Next]_vars
  PROVE  /\ AnalysisTypes' /\ AnalysisInv'
         /\ \A s \in Sessions \ evicted', n \in Runs :
              rows[s][n] = "available" /\ runOf'[s] # 0 => rows'[s][n] = "available"
<1> DEFINE Kept == \A s \in Sessions \ evicted', n \in Runs :
              rows[s][n] = "available" /\ runOf'[s] # 0 => rows'[s][n] = "available"
<1>0. AnalysisTypes /\ AnalysisInv /\ ProviderTypeOK BY DEF Inv, TypeOK, AnalysisTypes
<1>1. CASE UNCHANGED analysisVars
  <2>1. UNCHANGED <<runOf, runsMade, registry, analysis, rows, evicted>> BY <1>1 DEF analysisVars
  <2> QED BY <1>0, <2>1 DEF AnalysisTypes, AnalysisInv, InFlight
<1>2. ASSUME NEW s \in Sessions, RunFails(s) PROVE AnalysisTypes' /\ AnalysisInv' /\ Kept
  <2>1. UNCHANGED <<registry, analysis, rows, evicted>> BY <1>2 DEF RunFails
  <2>2. AnalysisTypes' BY <1>0, <1>2, AnalysesAssumption DEF RunFails, AnalysisTypes
  <2>3. AnalysisInv' BY <1>0, <2>1 DEF AnalysisInv, InFlight
  <2> QED BY <2>1, <2>2, <2>3
<1>3. ASSUME NEW s \in Sessions, SessionExpires(s) PROVE AnalysisTypes' /\ AnalysisInv' /\ Kept
  <2>1. AnalysisTypes'
    BY <1>0, <1>3, AnalysesAssumption DEF SessionExpires, AnalysisTypes, NoEntry, Explanation
  <2>2. /\ \A t \in Sessions : t # s => registry'[t] = registry[t] /\ rows'[t] = rows[t]
        /\ analysis' = analysis /\ evicted \subseteq evicted' /\ runOf'[s] = 0
        /\ (\E a \in Analyses : InFlight(a) /\ analysis[a].session = s) => s \in evicted'
    BY <1>0, <1>3 DEF SessionExpires, AnalysisTypes
  <2>3. AnalysisInv' BY <1>0, <2>2 DEF AnalysisInv, InFlight
  <2>4. Kept BY <2>2
  <2> QED BY <2>1, <2>3, <2>4
<1>4. ASSUME NEW a \in Analyses, NEW s \in Sessions, AnalysisBegins(a, s)
      PROVE  AnalysisTypes' /\ AnalysisInv' /\ Kept
  <2>0. runOf[s] \in Runs /\ registry[s].phase = "none" /\ UNCHANGED <<rows, runOf, evicted>>
    BY <1>0, <1>4, AnalysesAssumption DEF AnalysisBegins, tryBegin, AnalysisTypes, Runs
  <2>1. /\ registry' = [registry EXCEPT ![s] = [phase |-> "waiting-for-ai", by |-> a]]
        /\ analysis' = [analysis EXCEPT ![a] = [at |-> "budget", session |-> s, run |-> runOf[s],
                                                previous |-> rows[s][runOf[s]]]]
        /\ UNCHANGED runsMade
    BY <1>4 DEF AnalysisBegins, tryBegin
  <2>2. AnalysisTypes'
    <3>1. registry' \in [Sessions -> [phase : {"none", "waiting-for-ai", "generating"},
                                       by : Analyses \cup {Idle}]]
      BY <1>0, <2>1 DEF AnalysisTypes
    <3>2. rows[s][runOf[s]] \in Explanation /\ runOf[s] \in 0..MaxRuns
      BY <1>0, <2>0 DEF AnalysisTypes
    <3>3. analysis' \in [Analyses -> [at : {"idle", "budget", "infer", "done"},
                                       session : Sessions \cup {Idle}, run : 0..MaxRuns,
                                       previous : Explanation]]
      BY <1>0, <2>1, <3>2 DEF AnalysisTypes
    <3> QED BY <1>0, <2>0, <2>1, <3>1, <3>3 DEF AnalysisTypes
  <2>3. AnalysisInv'
    <3> SUFFICES ASSUME NEW t \in Sessions \ evicted, NEW b \in Analyses,
                        InFlight(b)', analysis'[b].session = t
                 PROVE  /\ registry'[t].by = b /\ registry'[t].phase # "none"
                        /\ analysis'[b].run \in Runs
                        /\ rows[t][analysis'[b].run] = analysis'[b].previous
      BY <2>0 DEF AnalysisInv
    <3>1. CASE b = a BY <1>0, <2>0, <2>1, <3>1 DEF AnalysisTypes
    <3>2. CASE b # a
      <4>1. analysis'[b] = analysis[b] /\ InFlight(b)
        BY <1>0, <2>1, <3>2 DEF AnalysisTypes, InFlight
      <4>2. registry[t].by = b /\ registry[t].phase # "none" /\ t # s
        BY <1>0, <2>0, <4>1 DEF AnalysisInv
      <4> QED BY <1>0, <2>1, <4>1, <4>2 DEF AnalysisInv, AnalysisTypes
    <3> QED BY <3>1, <3>2
  <2> QED BY <2>0, <2>2, <2>3
<1>5. ASSUME NEW a \in Analyses, HandlerStep(a) PROVE AnalysisTypes' /\ AnalysisInv' /\ Kept
  <2>1. CASE PromptSent(a)
    <3>1. UNCHANGED <<runOf, runsMade, registry, rows, evicted>>
          /\ analysis[a].at = "budget" /\ analysis' = [analysis EXCEPT ![a].at = "infer"]
      BY <2>1 DEF PromptSent
    <3>2. AnalysisTypes' BY <1>0, <3>1 DEF AnalysisTypes
    <3>3. \A b \in Analyses : /\ InFlight(b)' => InFlight(b)
                              /\ analysis'[b].session = analysis[b].session
                              /\ analysis'[b].run = analysis[b].run
                              /\ analysis'[b].previous = analysis[b].previous
      BY <1>0, <3>1 DEF AnalysisTypes, InFlight
    <3>4. AnalysisInv' BY <1>0, <3>1, <3>3 DEF AnalysisInv
    <3> QED BY <3>1, <3>2, <3>4
  <2>2. CASE PromptRefused(a) \/ AnswerArrives(a)
    <3>1. PICK e \in {"available", "unavailable"} : settleAnalysis(a, e)
      BY <2>2 DEF PromptRefused, AnswerArrives
    <3>2. InFlight(a) /\ UNCHANGED <<runOf, runsMade, evicted>>
      BY <2>2 DEF PromptRefused, AnswerArrives, InFlight
    <3> QED BY <1>0, <3>1, <3>2, SettleTypes, SettleKeeps
  <2> QED BY <1>5, <2>1, <2>2 DEF HandlerStep
<1>6. CASE markGenerating /\ UNCHANGED <<runOf, runsMade, analysis, rows, evicted>>
  <2>1. AnalysisTypes' BY <1>0, <1>6 DEF AnalysisTypes, markGenerating
  <2>2. \A s \in Sessions : /\ registry'[s].by = registry[s].by
                            /\ registry[s].phase # "none" => registry'[s].phase # "none"
    BY <1>0, <1>6 DEF AnalysisTypes, markGenerating
  <2>3. AnalysisInv'
    <3> SUFFICES ASSUME NEW s \in Sessions \ evicted, NEW a \in Analyses,
                        InFlight(a), analysis[a].session = s
                 PROVE  /\ registry'[s].by = a /\ registry'[s].phase # "none"
                        /\ analysis[a].run \in Runs
                        /\ rows[s][analysis[a].run] = analysis[a].previous
      BY <1>6 DEF AnalysisInv, InFlight
    <3> QED BY <1>0, <2>2 DEF AnalysisInv
  <2> QED BY <1>6, <2>1, <2>3
<1> QED BY <1>1, <1>2, <1>3, <1>4, <1>5, <1>6
        DEF Next, OtherBudget, OtherInfers, ProviderStep, vars

LEMMA NextInv == Inv /\ [Next]_vars => Inv'
BY ProviderKeeps, AnalysisKeeps DEF Inv, TypeOK, AnalysisTypes

LEMMA SpecInv == Spec => []Inv
BY InitInv, NextInv, PTL DEF Spec

(* ------------------------------ theorems ------------------------------- *)

\* Every behaviour is typed: a timed-out generation that is held against and the request of the
\* task whose turn it is are requests (LocalProvider.infer, analyzeFailure).
THEOREM TypeCorrect == Spec => []TypeOK
BY SpecInv, PTL DEF Inv

\* No two generations overlap, whatever timeouts, abandoned generations and verifications of the
\* accelerator come between (RequestQueue.holdUntilSettled, LocalProvider.verifyAccelerator).
THEOREM GenerationsSerial == Spec => []OneGeneration
BY SpecInv, PTL DEF Inv, ProviderInv

\* Ready means a loaded engine, and for the accelerator a verified one; nothing is generated
\* before (LocalProvider.loadWithAcceleratorFallback, ReadinessTracker).
THEOREM ReadyOnlyVerified == Spec => []ReadyIsVerified
<1>1. Inv => ReadyIsVerified BY DEF Inv, ProviderInv, LoadInv, ReadyIsVerified
<1> QED BY <1>1, SpecInv, PTL

\* One analysis per session, and the registry names it (inProgressRegistry.tryBegin and end).
THEOREM AnalysesSerial == Spec => []OneAnalysisPerSession
<1>1. Inv => OneAnalysisPerSession BY DEF Inv, AnalysisInv, OneAnalysisPerSession
<1> QED BY <1>1, SpecInv, PTL

\* A failed re-explanation never replaces a stored explanation (analyzeFailure, saveAnalysis).
THEOREM ExplanationsKept == Spec => ExplanationKept
<1>1. Inv /\ [Next]_vars =>
        [ \A s \in Sessions \ evicted', n \in Runs :
            rows[s][n] = "available" /\ runOf'[s] # 0 => rows'[s][n] = "available" ]_vars
  BY AnalysisKeeps
<1> QED BY <1>1, SpecInv, PTL DEF Spec, ExplanationKept

(* ----------------------------- refinement ------------------------------ *)

LEMMA AnswerSettles ==
  ASSUME ProviderTypeOK, NEW outcome \in Answers, answerCurrent(outcome), current \in Requests
  PROVE  {r \in Requests : answer'[r] \notin {"none", "pending"}}
           = {r \in Requests : answer[r] \notin {"none", "pending"}} \cup {current}
BY DEF ProviderTypeOK, answerCurrent, Answers

\* A step of the provider is a step of the serial service, or none.
LEMMA ServiceStep ==
  ASSUME Inv, [Next]_vars PROVE [Service!Next]_(Service!serviceVars)
<1> DEFINE serving == {current} \ {Idle}
           settled == {r \in Requests : answer[r] \notin {"none", "pending"}}
<1> USE CanaryAssumption
<1>0. ProviderTypeOK /\ ProviderInv BY DEF Inv, TypeOK
<1>1. CASE UNCHANGED <<queue, current, runtime, answer>>
  BY <1>1 DEF Service!serviceVars
<1>2. ASSUME NEW r \in Requests, infer(r) PROVE Service!Next
  <2>1. UNCHANGED <<current, runtime>> /\ answer[r] = "none" BY <1>2 DEF infer
  <2>2. CASE answer' = [answer EXCEPT ![r] = "NOT_READY"] /\ UNCHANGED queue
    <3>1. settled' = settled \cup {r} BY <1>0, <2>2 DEF ProviderTypeOK
    <3>2. Service!Refuse(r) BY <2>1, <2>2, <3>1 DEF Service!Refuse
    <3> QED BY <3>2 DEF Service!Next
  <2>3. CASE answer' = [answer EXCEPT ![r] = "pending"] /\ queue' = Append(queue, r)
    <3>1. settled' = settled BY <1>0, <2>1, <2>3 DEF ProviderTypeOK
    <3>2. Service!Accept(r) BY <2>1, <2>3, <3>1 DEF Service!Accept
    <3> QED BY <3>2 DEF Service!Next
  <2> QED BY <1>2, <2>2, <2>3 DEF infer
<1>3. CASE LoadStep
  <2>1. UNCHANGED <<queue, current, answer>>
    BY <1>3 DEF LoadStep, AcceleratorLoads, AcceleratorLoadFails, CanaryPasses, CanaryFails,
           CanaryTimesOut, CanaryDrains, releaseRejectedEngine, CpuLoads, CpuLoadFails, queueVars
  <2>2. CASE AcceleratorLoads
    <3>1. runtime = {} /\ runtime' = {Canary}
      BY <1>0, <2>2 DEF AcceleratorLoads, ProviderInv, LoadInv, ProviderTypeOK
    <3>2. Service!Compute(Canary) BY <2>1, <3>1 DEF Service!Compute
    <3> QED BY <3>2 DEF Service!Next
  <2>3. CASE CanaryPasses \/ CanaryFails \/ CanaryDrains
    <3>1. runtime' = runtime \ {Canary} BY <2>3 DEF CanaryPasses, CanaryFails, CanaryDrains
    <3>2. CASE Canary \in runtime
      <4>1. Service!Finish(Canary) BY <2>1, <3>1, <3>2 DEF Service!Finish
      <4> QED BY <4>1 DEF Service!Next
    <3>3. CASE Canary \notin runtime BY <1>1, <2>1, <3>1, <3>3
    <3> QED BY <3>2, <3>3
  <2>4. CASE UNCHANGED runtime BY <1>1, <2>1, <2>4
  <2> QED BY <1>3, <2>2, <2>3, <2>4
          DEF LoadStep, AcceleratorLoadFails, CanaryTimesOut, releaseRejectedEngine, CpuLoads,
              CpuLoadFails
<1>4. CASE TailSettles
  <2>1. Head(queue) \in Requests BY <1>0, <1>4 DEF TailSettles, ProviderTypeOK
  <2>2. serving = {} /\ serving' = {Head(queue)} BY <1>4, <2>1 DEF TailSettles, Idle
  <2>3. Service!Serve BY <1>4, <2>2 DEF TailSettles, Service!Serve
  <2> QED BY <2>3 DEF Service!Next
<1>5. CASE TaskStarts BY <1>1, <1>5 DEF TaskStarts
<1>6. CASE EngineUnavailable \/ GenerationSettles \/ InferenceTimesOut
  <2>1. current \in Requests /\ current # Idle
    BY <1>0, <1>6 DEF EngineUnavailable, GenerationSettles, InferenceTimesOut, ProviderInv, TurnInv,
                      ProviderTypeOK, Idle
  <2>2. PICK outcome \in Answers : answerCurrent(outcome)
    BY <1>6 DEF EngineUnavailable, GenerationSettles, InferenceTimesOut, Answers
  <2>3. settled' = settled \cup {current} BY <1>0, <2>1, <2>2, AnswerSettles
  <2>4. serving = {current} /\ serving' = {} BY <2>1, <2>2 DEF answerCurrent
  <2>5. runtime' \in {runtime, runtime \ {current}} /\ UNCHANGED queue
    BY <1>6 DEF EngineUnavailable, GenerationSettles, InferenceTimesOut
  <2>6. PICK r \in Requests : r = current BY <2>1
  <2>7. Service!Answer(r) BY <2>3, <2>4, <2>5, <2>6 DEF Service!Answer
  <2> QED BY <2>7 DEF Service!Next
<1>7. ASSUME NEW r \in Requests, AbandonedSettles(r) PROVE Service!Next
  <2>1. Service!Finish(r) BY <1>7 DEF AbandonedSettles, queueVars, Service!Finish
  <2> QED BY <2>1 DEF Service!Next
<1>8. CASE GenerationStarts
  <2>1. current \in Requests /\ runtime = {}
    BY <1>0, <1>8 DEF GenerationStarts, ProviderInv, TurnInv, LoadInv, ProviderTypeOK, Idle
  <2>2. runtime' = {current} /\ current \in serving BY <1>8, <2>1 DEF GenerationStarts, Idle
  <2>3. Service!Compute(current) BY <1>8, <2>1, <2>2 DEF GenerationStarts, Service!Compute
  <2> QED BY <2>1, <2>3 DEF Service!Next
<1> QED BY <1>1, <1>2, <1>3, <1>4, <1>5, <1>6, <1>7, <1>8, ProviderMoves
        DEF QueueStep, providerVars, queueVars

\* The provider is the serial service its comments promise: requests are served in the order they
\* were accepted, one computation at a time, abandoned ones included (RequestQueue, LocalProvider).
THEOREM ProviderImplementsService == Spec => ServesInOrder
<1>1. Init => Service!Init BY DEF Init, ProviderInit, Service!Init, Idle
<1>2. Inv /\ [Next]_vars => [Service!Next]_(Service!serviceVars) BY ServiceStep
<1> QED BY <1>1, <1>2, SpecInv, PTL DEF Spec, ServesInOrder, Service!Spec
=============================================================================
