---------------------------- MODULE SerialRuntime ----------------------------
(***************************************************************************)
(* What the local AI provider promises its callers (the comments of        *)
(* ai/requestQueue.ts, FR-018, and of localProvider.ts, specs/013 FR-017): *)
(* requests are served in the order they were accepted, and the machine    *)
(* computes one thing at a time, even when the caller of a computation has *)
(* given up on it. LocalProvider is shown to implement this.               *)
(***************************************************************************)
EXTENDS Sequences

CONSTANTS
  Requests,   \* inference requests, each made once
  Canary      \* the accelerator's verification inference

VARIABLES
  backlog,    \* accepted and not yet served, oldest first
  serving,    \* the requests being served: none or one
  runtime,    \* the computations the machine is busy with
  settled     \* the requests that have their answer

serviceVars == <<backlog, serving, runtime, settled>>

Init == backlog = <<>> /\ serving = {} /\ runtime = {} /\ settled = {}

Accept(r) ==
  /\ backlog' = Append(backlog, r)
  /\ UNCHANGED <<serving, runtime, settled>>

Refuse(r) ==
  /\ settled' = settled \cup {r}
  /\ UNCHANGED <<backlog, serving, runtime>>

Serve ==
  /\ serving = {} /\ backlog # <<>>
  /\ serving' = {Head(backlog)} /\ backlog' = Tail(backlog)
  /\ UNCHANGED <<runtime, settled>>

Compute(x) ==
  /\ runtime = {}
  /\ x \in serving \cup {Canary}
  /\ runtime' = {x}
  /\ UNCHANGED <<backlog, serving, settled>>

Finish(x) ==
  /\ x \in runtime
  /\ runtime' = runtime \ {x}
  /\ UNCHANGED <<backlog, serving, settled>>

\* The answer is a result (the computation ends with it) or a failure, which may leave the
\* computation running.
Answer(r) ==
  /\ r \in serving
  /\ serving' = {} /\ settled' = settled \cup {r}
  /\ runtime' \in {runtime, runtime \ {r}}
  /\ UNCHANGED backlog

Next ==
  \/ \E r \in Requests : Accept(r) \/ Refuse(r) \/ Answer(r)
  \/ Serve
  \/ \E x \in Requests \cup {Canary} : Compute(x) \/ Finish(x)

Spec == Init /\ [][Next]_serviceVars
=============================================================================
