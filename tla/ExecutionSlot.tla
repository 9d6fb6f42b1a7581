---------------------------- MODULE ExecutionSlot ----------------------------
(***************************************************************************)
(* The rows every kind of run keeps (persistence/*RunRepository.ts) and    *)
(* the session's one execution slot over them (execution/executionSlot.ts):*)
(* a start asks findExecutionInProgress and inserts its row in one step.   *)
(* What a start or a settlement does to the stages of the guided workflow  *)
(* is in TestGenerationWorkflow.                                           *)
(***************************************************************************)
EXTENDS Naturals, FiniteSets

CONSTANTS
  MaxRuns,   \* bound: runs started in the session
  RunKinds   \* the kinds of run the instance has

Kinds == {"generated", "uploaded", "chain", "user-script", "security"}

ASSUME SlotAssumption == MaxRuns \in Nat /\ RunKinds \subseteq Kinds

VARIABLE rows      \* per run id: its row

RunIds == 1..MaxRuns
Row == [kind : Kinds \cup {"none"},
        status : {"absent", "in-progress", "completed", "cancelled", "failed", "deleted"},
        reason : {"none", "user-requested", "backend-restart"},
        cancel : BOOLEAN]

NoRow == [kind |-> "none", status |-> "absent", reason |-> "none", cancel |-> FALSE]

SlotInit == rows = [n \in RunIds |-> NoRow]

InProgress(n) == rows[n].status = "in-progress"

\* Asked of all kinds in turn; at most one row answers.
findExecutionInProgress_NoSecurity ==
  {n \in RunIds : InProgress(n) /\ rows[n].kind # "security"}
findExecutionInProgress == {n \in RunIds : InProgress(n)}

\* Ids are taken in order; the code's are random.
NextRun(n) ==
  rows[n].status = "absent" /\ \A m \in RunIds : m < n => rows[m].status # "absent"

createRun(n, kind) ==
  rows' = [rows EXCEPT ![n] = [kind |-> kind, status |-> "in-progress",
                               reason |-> "none", cancel |-> FALSE]]

settleRun(n, status, reason) ==
  rows' = [rows EXCEPT ![n].status = status, ![n].reason = reason]

requestCancel(n) == rows' = [rows EXCEPT ![n].cancel = TRUE]

\* A security run belongs to the browser's owner id and is retained; the others go with the session.
deleteBySession ==
  rows' = [n \in RunIds |->
             IF rows[n].status # "absent" /\ rows[n].kind # "security"
             THEN [NoRow EXCEPT !.kind = rows[n].kind, !.status = "deleted"] ELSE rows[n]]

\* Startup, before the listener accepts requests: once per kind, over every session.
markInterruptedRunsCancelled_NewmanOnly ==
  rows' = [n \in RunIds |->
             IF InProgress(n) /\ rows[n].kind \in {"generated", "uploaded"}
             THEN [rows[n] EXCEPT !.status = "cancelled", !.reason = "backend-restart"]
             ELSE rows[n]]
markInterruptedRunsCancelled ==
  rows' = [n \in RunIds |->
             IF InProgress(n)
             THEN [rows[n] EXCEPT !.status = "cancelled", !.reason = "backend-restart"]
             ELSE rows[n]]
=============================================================================
