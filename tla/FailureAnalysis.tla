--------------------------- MODULE FailureAnalysis ---------------------------
(***************************************************************************)
(* On-demand analyses of failed results (failureAnalysis/, the routes of   *)
(* api/failureAnalysis.ts, the rows of persistence/failureAnalysis-        *)
(* Repository.ts), composed with the provider they ask for an explanation. *)
(* The provider's other callers are the requests that are not analyses.    *)
(*                                                                         *)
(* An analysis is suspended twice, on the input budget (which loads the    *)
(* engine) and on the inference, and carries what it read before: its run  *)
(* and the analysis stored earlier. A session may be evicted meanwhile,    *)
(* which deletes its runs, its rows and its entry in the registry.         *)
(***************************************************************************)
EXTENDS LocalProvider

CONSTANTS
  Analyses,    \* the requests that are analyses
  Sessions,
  MaxRuns      \* bound: uploaded-collection runs with a failed result, per session

ASSUME AnalysesAssumption == Analyses \subseteq Requests /\ MaxRuns \in Nat

VARIABLES
  runOf,        \* per session: the run whose failed result can be analysed; 0 is none
  runsMade,     \* per session: runs made so far
  registry,     \* inProgressRegistry: per session, the analysis in progress and its phase
  analysis,     \* per analysis: what its suspended handler knows
  rows,         \* failure_analyses: per session and run, the state of the stored explanation
  evicted       \* history: sessions evicted while an analysis of theirs was in progress

analysisVars == <<runOf, runsMade, registry, analysis, rows, evicted>>
vars == <<providerVars, analysisVars>>

Runs == 1..MaxRuns
NoEntry == [phase |-> "none", by |-> Idle]
Explanation == {"none", "unavailable", "available"}
Dormant == [at |-> "idle", session |-> Idle, run |-> 0, previous |-> "none"]

TypeOK ==
  /\ ProviderTypeOK
  /\ runOf \in [Sessions -> 0..MaxRuns] /\ runsMade \in [Sessions -> 0..MaxRuns]
  /\ registry \in [Sessions -> [phase : {"none", "waiting-for-ai", "generating"},
                                by : Analyses \cup {Idle}]]
  /\ analysis \in [Analyses -> [at : {"idle", "budget", "infer", "done"},
                                session : Sessions \cup {Idle}, run : 0..MaxRuns,
                                previous : Explanation]]
  /\ rows \in [Sessions -> [Runs -> Explanation]]
  /\ evicted \in SUBSET Sessions

Init ==
  /\ ProviderInit
  /\ runOf = [s \in Sessions |-> 0] /\ runsMade = [s \in Sessions |-> 0]
  /\ registry = [s \in Sessions |-> NoEntry]
  /\ analysis = [a \in Analyses |-> Dormant]
  /\ rows = [s \in Sessions |-> [n \in Runs |-> "none"]]
  /\ evicted = {}

InFlight(a) == analysis[a].at \in {"budget", "infer"}

(* ------------------------- the rest of the program --------------------- *)

\* An uploaded-collection run of the session settles with a failed result.
RunFails(s) ==
  /\ runsMade[s] < MaxRuns
  /\ runsMade' = [runsMade EXCEPT ![s] = @ + 1]
  /\ runOf' = [runOf EXCEPT ![s] = runsMade[s] + 1]
  /\ UNCHANGED <<providerVars, registry, analysis, rows, evicted>>

\* The sweep evicts the session: runs and analyses are deleted, the registry entry is ended.
SessionExpires(s) ==
  /\ runOf[s] # 0
  /\ runOf' = [runOf EXCEPT ![s] = 0]
  /\ rows' = [rows EXCEPT ![s] = [n \in Runs |-> "none"]]
  /\ registry' = [registry EXCEPT ![s] = NoEntry]
  /\ evicted' = IF \E a \in Analyses : InFlight(a) /\ analysis[a].session = s
                THEN evicted \cup {s} ELSE evicted
  /\ UNCHANGED <<providerVars, runsMade, analysis>>

\* Workflow AI runs, regenerations and dependency analysis ask for their budget, then infer.
OtherBudget ==
  /\ ensureEngine
  /\ UNCHANGED <<queueVars, runtime, answer, analysisVars>>

OtherInfers ==
  /\ \E r \in Requests \ Analyses : infer(r)
  /\ UNCHANGED analysisVars

(* ---------------------------- analyzeFailure --------------------------- *)

tryBegin_NoCheck(s, a) ==
  registry' = [registry EXCEPT ![s] = [phase |-> "waiting-for-ai", by |-> a]]
tryBegin(s, a) ==
  /\ registry[s].phase = "none"
  /\ registry' = [registry EXCEPT ![s] = [phase |-> "waiting-for-ai", by |-> a]]

\* Up to the await on getInputBudget: check-and-set, then the stored analysis is read.
AnalysisBegins(a, s) ==
  /\ analysis[a].at = "idle" /\ runOf[s] # 0
  /\ tryBegin(s, a)
  /\ analysis' = [analysis EXCEPT ![a] = [at |-> "budget", session |-> s, run |-> runOf[s],
                                          previous |-> rows[s][runOf[s]]]]
  /\ ensureEngine
  /\ UNCHANGED <<queueVars, runtime, answer, runOf, runsMade, rows, evicted>>

\* saveAnalysis, unless a failed re-explanation would replace a stored one; end in any case.
settleAnalysis_Overwrites(a, explanation) ==
  LET me == analysis[a]
  IN /\ rows' = [rows EXCEPT ![me.session][me.run] = explanation]
     /\ registry' = [registry EXCEPT ![me.session] = NoEntry]
     /\ analysis' = [analysis EXCEPT ![a].at = "done"]
settleAnalysis(a, explanation) ==
  LET me == analysis[a]
      kept == explanation = "unavailable" /\ me.previous = "available"
  IN /\ rows' = IF kept THEN rows ELSE [rows EXCEPT ![me.session][me.run] = explanation]
     /\ registry' = [registry EXCEPT ![me.session] = NoEntry]
     /\ analysis' = [analysis EXCEPT ![a].at = "done"]

\* The budget is known (or the load failed, and it is unlimited): too large or not viable.
PromptRefused(a) ==
  /\ analysis[a].at = "budget" /\ load \in {"resolved", "rejected"}
  /\ settleAnalysis(a, "unavailable")
  /\ UNCHANGED <<providerVars, runOf, runsMade, evicted>>

PromptSent(a) ==
  /\ analysis[a].at = "budget" /\ load \in {"resolved", "rejected"}
  /\ infer(a)
  /\ analysis' = [analysis EXCEPT ![a].at = "infer"]
  /\ UNCHANGED <<runOf, runsMade, registry, rows, evicted>>

\* The answer arrives; a usable reply becomes an explanation, anything else is unavailable.
AnswerArrives_SuccessOnly(a) ==
  /\ analysis[a].at = "infer" /\ answer[a] = "success"
  /\ \E explanation \in {"available", "unavailable"} : settleAnalysis(a, explanation)
  /\ UNCHANGED <<providerVars, runOf, runsMade, evicted>>
AnswerArrives(a) ==
  /\ analysis[a].at = "infer" /\ answer[a] \notin {"none", "pending"}
  /\ \E explanation \in IF answer[a] = "success" THEN {"available", "unavailable"}
                                                 ELSE {"unavailable"} :
       settleAnalysis(a, explanation)
  /\ UNCHANGED <<providerVars, runOf, runsMade, evicted>>

\* GenerationStarts of an analysis calls onStarted, which marks whatever entry its session has.
markGenerating ==
  LET s == analysis[current].session
  IN registry' = IF current \in Analyses /\ registry[s].phase # "none"
                 THEN [registry EXCEPT ![s].phase = "generating"] ELSE registry

ProviderStep ==
  \/ /\ LoadStep \/ QueueStep
     /\ UNCHANGED analysisVars
  \/ /\ GenerationStarts /\ markGenerating
     /\ UNCHANGED <<runOf, runsMade, analysis, rows, evicted>>

HandlerStep(a) == PromptRefused(a) \/ PromptSent(a) \/ AnswerArrives(a)

Next ==
  \/ \E s \in Sessions : RunFails(s) \/ SessionExpires(s)
  \/ OtherBudget \/ OtherInfers
  \/ \E a \in Analyses, s \in Sessions : AnalysisBegins(a, s)
  \/ \E a \in Analyses : HandlerStep(a)
  \/ ProviderStep

\* A load ends, a generation ends (it is bounded by maxNewTokens), a promise that settled runs its
\* continuations. No fairness of requests, of timeouts or of the sweep.
Fairness ==
  /\ WF_vars(ProviderStep)
  /\ WF_vars(TailSettles /\ UNCHANGED analysisVars)
  /\ WF_vars(TaskStarts /\ UNCHANGED analysisVars)
  /\ \A r \in Requests : WF_vars(AbandonedSettles(r) /\ UNCHANGED analysisVars)
  /\ \A a \in Analyses : WF_vars(HandlerStep(a))

Spec == Init /\ [][Next]_vars
FairSpec == Spec /\ Fairness

(* ------------------------------ properties ----------------------------- *)

\* FR-016, in a session that was not evicted under an analysis: one analysis in progress, and it
\* is the one the registry names, so no analysis ends another's entry.
OneAnalysisPerSession ==
  \A s \in Sessions \ evicted : \A a \in Analyses :
    InFlight(a) /\ analysis[a].session = s => registry[s].by = a

\* FR-015: a stored explanation is never replaced by a failed attempt, although "previous" was read
\* before two awaits. Only eviction removes it.
ExplanationKept ==
  [][ \A s \in Sessions \ evicted', n \in Runs :
        rows[s][n] = "available" /\ runOf'[s] # 0 => rows'[s][n] = "available" ]_vars

\* Whoever asked is answered, however long earlier requests and held generations take.
EveryRequestAnswered == \A r \in Requests : answer[r] = "pending" ~> answer[r] # "pending"

\* An analysis always releases its session for the next one.
AnalysisEnds == \A a \in Analyses : InFlight(a) ~> ~InFlight(a)
=============================================================================
