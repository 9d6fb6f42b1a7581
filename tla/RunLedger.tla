------------------------------ MODULE RunLedger ------------------------------
(***************************************************************************)
(* What a session is promised about its runs (execution/executionSlot.ts;  *)
(* specs/018 FR-008, specs/025 FR-008): one run in progress, whatever its  *)
(* kind; a run that ended keeps the status it ended with; and a run leaves *)
(* the ledger only when its data is deleted. ExecutionRuns is shown to     *)
(* implement this.                                                         *)
(***************************************************************************)
CONSTANT RunIds

VARIABLE status   \* per run: "absent", "in-progress", how it ended, or "deleted"

Ended == {"completed", "cancelled", "failed"}

Init == status = [n \in RunIds |-> "absent"]

Start(n) ==
  /\ \A m \in RunIds : status[m] # "in-progress"
  /\ status[n] = "absent"
  /\ status' = [status EXCEPT ![n] = "in-progress"]

End(n, how) ==
  /\ status[n] = "in-progress"
  /\ status' = [status EXCEPT ![n] = how]

\* The runs of some kinds at once.
Delete(gone) ==
  /\ \A n \in gone : status[n] # "absent"
  /\ status' = [n \in RunIds |-> IF n \in gone THEN "deleted" ELSE status[n]]

Next ==
  \/ \E n \in RunIds : Start(n)
  \/ \E n \in RunIds, how \in Ended : End(n, how)
  \/ \E gone \in SUBSET RunIds : Delete(gone)

Spec == Init /\ [][Next]_status
=============================================================================
