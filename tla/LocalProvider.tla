---------------------------- MODULE LocalProvider ----------------------------
(***************************************************************************)
(* The process-wide local AI provider: LocalProvider (localProvider.ts),   *)
(* its RequestQueue (requestQueue.ts) and its readiness (readiness.ts).    *)
(* The runtime cannot be interrupted: a generation that timed out goes on  *)
(* computing, and the queue holds the next task until it has settled. The  *)
(* engine is loaded once, by the first caller that needs it, through the   *)
(* accelerator and its verification when that is configured. retryLoad has *)
(* no caller in the program, so a failed load is final.                    *)
(***************************************************************************)
EXTENDS Sequences, Naturals

CONSTANTS
  Requests,   \* inference requests; each is made at most once
  Canary      \* the fixed verification inference of a loaded accelerator

ASSUME CanaryAssumption == Canary \notin Requests /\ "idle" \notin Requests

VARIABLES
  useAccelerator,   \* config.useAccelerator
  load,             \* where loadWithAcceleratorFallback is, as enginePromise sees it
  readiness,        \* ReadinessTracker.state, with the device it reports
  verification,     \* outcome of verifyAccelerator
  queue,            \* tasks enqueued whose predecessors have not settled
  current,          \* the request whose task the queue has reached, or Idle
  stage,            \* where that task is: "gated", "loading", "generating"
  gate,             \* the held work the task waits for, read when its turn came
  held,             \* generations registered with holdUntilSettled
  runtime,          \* generations the engines are computing
  answer            \* per request: "none", "pending", or how it was answered

providerVars == <<useAccelerator, load, readiness, verification,
                  queue, current, stage, gate, held, runtime, answer>>
loadVars  == <<useAccelerator, load, readiness, verification>>
queueVars == <<queue, current, stage, gate, held>>

Idle == "idle"
LoadPhase == {"none", "gpu", "canary", "drain", "dispose", "cpu", "resolved", "rejected"}
Readiness == [state : {"not-loaded", "loading", "ready", "unavailable"},
              device : {"none", "cpu", "accelerator"}]
\* InferenceResponse: a success, or AIErrorCategory.
Answers == {"success", "TIMEOUT", "LOAD_FAILED", "NOT_READY", "PROVIDER_UNAVAILABLE"}

ProviderTypeOK ==
  /\ useAccelerator \in BOOLEAN
  /\ load \in LoadPhase
  /\ readiness \in Readiness
  /\ verification \in {"none", "passed", "failed"}
  /\ queue \in Seq(Requests)
  /\ current \in Requests \cup {Idle}
  /\ stage \in {Idle, "gated", "loading", "generating"}
  /\ gate \in SUBSET Requests /\ held \in SUBSET Requests
  /\ runtime \in SUBSET (Requests \cup {Canary})
  /\ answer \in [Requests -> Answers \cup {"none", "pending"}]

ProviderInit ==
  /\ useAccelerator \in BOOLEAN
  /\ load = "none" /\ verification = "none"
  /\ readiness = [state |-> "not-loaded", device |-> "none"]
  /\ queue = <<>> /\ current = Idle /\ stage = Idle
  /\ gate = {} /\ held = {} /\ runtime = {}
  /\ answer = [r \in Requests |-> "none"]

(* ------------------------------- readiness ----------------------------- *)

markLoading == readiness' = [state |-> "loading", device |-> "none"]
markReady(device) == readiness' = [state |-> "ready", device |-> device]
markUnavailable == readiness' = [state |-> "unavailable", device |-> "none"]

(* ---------------------------- engine loading --------------------------- *)

\* The first caller starts the load; every later one shares its promise.
ensureEngine ==
  \/ /\ load = "none"
     /\ load' = IF useAccelerator THEN "gpu" ELSE "cpu"
     /\ markLoading
     /\ UNCHANGED <<useAccelerator, verification>>
  \/ /\ load # "none"
     /\ UNCHANGED loadVars

\* An accelerator that loads is verified before anything else may use it; one that does not
\* load is replaced by the CPU.
AcceleratorLoads_Unverified ==
  /\ load = "gpu"
  /\ load' = "resolved" /\ markReady("accelerator")
  /\ UNCHANGED <<useAccelerator, verification, queueVars, runtime, answer>>
AcceleratorLoads ==
  /\ load = "gpu"
  /\ load' = "canary" /\ runtime' = runtime \cup {Canary}
  /\ UNCHANGED <<useAccelerator, readiness, verification, queueVars, answer>>

AcceleratorLoadFails ==
  /\ load = "gpu"
  /\ load' = "cpu"
  /\ UNCHANGED <<useAccelerator, readiness, verification, queueVars, runtime, answer>>

CanaryPasses ==
  /\ load = "canary"
  /\ load' = "resolved" /\ verification' = "passed"
  /\ runtime' = runtime \ {Canary}
  /\ markReady("accelerator")
  /\ UNCHANGED <<useAccelerator, queueVars, answer>>

\* An unusable reply, or an engine error.
CanaryFails ==
  /\ load = "canary"
  /\ load' = "dispose" /\ verification' = "failed"
  /\ runtime' = runtime \ {Canary}
  /\ UNCHANGED <<useAccelerator, readiness, queueVars, answer>>

\* The verdict is timeout, but the abandoned generation is awaited before anything follows.
CanaryTimesOut ==
  /\ load = "canary"
  /\ load' = "drain" /\ verification' = "failed"
  /\ UNCHANGED <<useAccelerator, readiness, queueVars, runtime, answer>>

CanaryDrains ==
  /\ load = "drain"
  /\ load' = "dispose" /\ runtime' = runtime \ {Canary}
  /\ UNCHANGED <<useAccelerator, readiness, verification, queueVars, answer>>

\* Whether or not dispose() throws.
releaseRejectedEngine ==
  /\ load = "dispose"
  /\ load' = "cpu"
  /\ UNCHANGED <<useAccelerator, readiness, verification, queueVars, runtime, answer>>

CpuLoads ==
  /\ load = "cpu"
  /\ load' = "resolved" /\ markReady("cpu")
  /\ UNCHANGED <<useAccelerator, verification, queueVars, runtime, answer>>

\* The promise rejects; readiness changes only when a caller of runInference sees it.
CpuLoadFails ==
  /\ load = "cpu"
  /\ load' = "rejected"
  /\ UNCHANGED <<useAccelerator, readiness, verification, queueVars, runtime, answer>>

LoadStep ==
  \/ AcceleratorLoads \/ AcceleratorLoadFails
  \/ CanaryPasses \/ CanaryFails \/ CanaryTimesOut \/ CanaryDrains
  \/ releaseRejectedEngine \/ CpuLoads \/ CpuLoadFails

(* ------------------------------- the queue ----------------------------- *)

\* enqueue(task), from infer(): refused at once while the model is known to be unavailable.
infer(r) ==
  /\ answer[r] = "none"
  /\ IF readiness.state = "unavailable"
     THEN answer' = [answer EXCEPT ![r] = "NOT_READY"] /\ UNCHANGED queue
     ELSE answer' = [answer EXCEPT ![r] = "pending"] /\ queue' = Append(queue, r)
  /\ UNCHANGED <<loadVars, current, stage, gate, held, runtime>>

\* tail settled: the next task's turn. `held` is read now, not when the task was enqueued.
TailSettles_NewestFirst ==
  /\ current = Idle /\ queue # <<>>
  /\ current' = queue[Len(queue)] /\ queue' = SubSeq(queue, 1, Len(queue) - 1)
  /\ stage' = "gated" /\ gate' = held
  /\ UNCHANGED <<loadVars, held, runtime, answer>>
TailSettles ==
  /\ current = Idle /\ queue # <<>>
  /\ current' = Head(queue) /\ queue' = Tail(queue)
  /\ stage' = "gated" /\ gate' = held
  /\ UNCHANGED <<loadVars, held, runtime, answer>>

\* Every held generation read at TailSettles has settled: the task runs, up to its first await.
TaskStarts ==
  /\ stage = "gated" /\ gate \cap runtime = {}
  /\ stage' = "loading"
  /\ ensureEngine
  /\ UNCHANGED <<queue, current, gate, held, runtime, answer>>

answerCurrent(outcome) ==
  /\ answer' = [answer EXCEPT ![current] = outcome]
  /\ current' = Idle /\ stage' = Idle

EngineUnavailable_Unanswered ==
  /\ stage = "loading" /\ load = "rejected"
  /\ current' = Idle /\ stage' = Idle
  /\ markUnavailable
  /\ UNCHANGED <<useAccelerator, load, verification, queue, gate, held, runtime, answer>>
EngineUnavailable ==
  /\ stage = "loading" /\ load = "rejected"
  /\ answerCurrent("LOAD_FAILED")
  /\ markUnavailable
  /\ UNCHANGED <<useAccelerator, load, verification, queue, gate, held, runtime>>

GenerationStarts ==
  /\ stage = "loading" /\ load = "resolved"
  /\ stage' = "generating"
  /\ runtime' = runtime \cup {current}
  /\ UNCHANGED <<loadVars, queue, current, gate, held, answer>>

GenerationSettles_RawError ==
  /\ stage = "generating"
  /\ \E outcome \in {"success", "ENGINE_ERROR"} : answerCurrent(outcome)
  /\ runtime' = runtime \ {current}
  /\ UNCHANGED <<loadVars, queue, gate, held>>
GenerationSettles ==
  /\ stage = "generating"
  /\ \E outcome \in {"success", "PROVIDER_UNAVAILABLE"} : answerCurrent(outcome)
  /\ runtime' = runtime \ {current}
  /\ UNCHANGED <<loadVars, queue, gate, held>>

\* The caller is released; the generation goes on and is held against.
InferenceTimesOut_NotHeld ==
  /\ stage = "generating"
  /\ answerCurrent("TIMEOUT")
  /\ UNCHANGED <<loadVars, queue, gate, held, runtime>>
InferenceTimesOut ==
  /\ stage = "generating"
  /\ answerCurrent("TIMEOUT")
  /\ held' = held \cup {current}
  /\ UNCHANGED <<loadVars, queue, gate, runtime>>

\* Nothing reads a late result.
AbandonedSettles(r) ==
  /\ r \in runtime /\ r \in held
  /\ runtime' = runtime \ {r}
  /\ UNCHANGED <<loadVars, queueVars, answer>>

\* The steps a caller does not take part in; GenerationStarts also calls its onStarted hook.
QueueStep ==
  \/ TailSettles \/ TaskStarts \/ EngineUnavailable
  \/ GenerationSettles \/ InferenceTimesOut
  \/ \E r \in Requests : AbandonedSettles(r)

(* ------------------------------ properties ----------------------------- *)

\* The machine computes one thing at a time: no two generations overlap, abandoned ones and the
\* canary of a rejected accelerator included (specs/013 FR-017).
OneGeneration == \A x, y \in runtime : x = y

\* Ready is said of a usable engine only, and of the accelerator only after its verification
\* passed; no generation runs before (specs/055 FR-001).
ReadyIsVerified ==
  /\ readiness.state = "ready" => load = "resolved"
  /\ readiness.device = "accelerator" => verification = "passed"
  /\ runtime \cap Requests # {} => readiness.state = "ready"

\* The provider as the serial service its comments promise.
Service == INSTANCE SerialRuntime
  WITH backlog <- queue,
       serving <- {current} \ {Idle},
       runtime <- runtime,
       settled <- {r \in Requests : answer[r] \notin {"none", "pending"}}

ServesInOrder == Service!Spec
=============================================================================
