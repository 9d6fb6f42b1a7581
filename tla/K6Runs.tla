-------------------------------- MODULE K6Runs --------------------------------
(***************************************************************************)
(* Load runs, which a k6 child process executes: startPerformanceRun of a  *)
(* request-chain plan (performance/runPerformanceTest.ts, api/chainPlans)  *)
(* and runUserScript of a script the user supplied (performance/user-      *)
(* Script/), over one runner (performance/k6/runner.ts). A document is the *)
(* plan or the script; it may run once its script was generated, or once   *)
(* its bytes were confirmed.                                               *)
(*                                                                         *)
(* A start handler reads the document, awaits the probe of the k6 binary,  *)
(* and then takes the slot with what it read. "starting" is the part up to *)
(* the spawn, during which nothing else happens. The child outlives a      *)
(* backend that crashes (phase "orphan").                                  *)
(***************************************************************************)
EXTENDS ExecutionSlot

CONSTANTS
  PlanTexts,     \* what a chain plan may say
  ScriptTexts    \* what a user's script may say

ASSUME TextsAssumption == "none" \notin PlanTexts \cup ScriptTexts

VARIABLES
  doc,        \* per kind: the stored document, and what its script was generated or confirmed for
  pending,    \* per kind: what a start handler suspended at the probe has read
  proc,       \* per run: its child process
  confirmed   \* history: the script texts a user confirmed

k6Vars == <<doc, pending, proc, confirmed>>

K6Kinds == RunKinds \cap {"chain", "user-script"}
Texts(k) == IF k = "chain" THEN PlanTexts ELSE ScriptTexts
Text == PlanTexts \cup ScriptTexts \cup {"none"}
NoDoc == [content |-> "none", ready |-> "none"]
NoProc == [phase |-> "none", text |-> "none", cancelled |-> FALSE, unreadable |-> FALSE]

K6TypeOK ==
  /\ doc \in [K6Kinds -> [content : Text, ready : Text]]
  /\ pending \in [K6Kinds -> Text]
  /\ proc \in [RunIds -> [phase : {"none", "starting", "live", "orphan"}, text : Text,
                          cancelled : BOOLEAN, unreadable : BOOLEAN]]
  /\ confirmed \subseteq ScriptTexts

K6Init ==
  /\ doc = [k \in K6Kinds |-> NoDoc] /\ pending = [k \in K6Kinds |-> "none"]
  /\ proc = [n \in RunIds |-> NoProc] /\ confirmed = {}

StartsQuiet == \A n \in RunIds : proc[n].phase # "starting"

(* ------------------------------ documents ------------------------------ *)

\* savePlan, createUserScript, replaceUserScriptContent. A generated script stays with its plan's
\* fingerprint; a confirmation goes with the bytes it was given for. No lock during a run.
SaveDocument(k, text) ==
  /\ StartsQuiet
  /\ doc' = [doc EXCEPT ![k] = [content |-> text,
                                ready |-> IF k = "chain" THEN @.ready ELSE "none"]]
  /\ UNCHANGED <<rows, pending, proc, confirmed>>

\* generateChainScript; confirmUserScript, of the hash the dialog showed.
MakeReady(k) ==
  /\ StartsQuiet /\ doc[k].content # "none"
  /\ doc' = [doc EXCEPT ![k].ready = doc[k].content]
  /\ confirmed' = IF k = "user-script" THEN confirmed \cup {doc[k].content} ELSE confirmed
  /\ UNCHANGED <<rows, pending, proc>>

DeleteDocument(k) ==
  /\ StartsQuiet /\ doc[k].content # "none"
  /\ ~ \E n \in RunIds : InProgress(n) /\ rows[n].kind = k
  /\ doc' = [doc EXCEPT ![k] = NoDoc]
  /\ UNCHANGED <<rows, pending, proc, confirmed>>

(* ------------------------------- starting ------------------------------ *)

\* Up to the await on the probe: the script exists and is current, or confirmed.
StartReads(k) ==
  /\ StartsQuiet /\ pending[k] = "none"
  /\ doc[k].content # "none" /\ doc[k].ready = doc[k].content
  /\ pending' = [pending EXCEPT ![k] = doc[k].content]
  /\ UNCHANGED <<rows, doc, proc, confirmed>>

\* k6 is not ready, the environment is gone, or the slot is taken.
StartRefused(k) ==
  /\ StartsQuiet /\ pending[k] # "none"
  /\ pending' = [pending EXCEPT ![k] = "none"]
  /\ UNCHANGED <<rows, doc, proc, confirmed>>

\* The check of the slot and the insert, then the run with what was read before the probe.
StartResumes_ReadsAgain(k, n) ==
  /\ StartsQuiet /\ pending[k] # "none" /\ NextRun(n)
  /\ findExecutionInProgress = {}
  /\ createRun(n, k)
  /\ proc' = [proc EXCEPT ![n] = [NoProc EXCEPT !.phase = "starting", !.text = doc[k].content]]
  /\ pending' = [pending EXCEPT ![k] = "none"]
  /\ UNCHANGED <<doc, confirmed>>
StartResumes(k, n) ==
  /\ StartsQuiet /\ pending[k] # "none" /\ NextRun(n)
  /\ findExecutionInProgress = {}
  /\ createRun(n, k)
  /\ proc' = [proc EXCEPT ![n] = [NoProc EXCEPT !.phase = "starting", !.text = pending[k]]]
  /\ pending' = [pending EXCEPT ![k] = "none"]
  /\ UNCHANGED <<doc, confirmed>>

\* No run directory, a copy that does not hash to its script, or a spawn that throws.
RunFailsToStart(n) ==
  /\ proc[n].phase = "starting"
  /\ settleRun(n, "failed", "none")
  /\ proc' = [proc EXCEPT ![n] = NoProc]
  /\ UNCHANGED <<doc, pending, confirmed>>

K6Spawns(n) ==
  /\ proc[n].phase = "starting"
  /\ proc' = [proc EXCEPT ![n].phase = "live"]
  /\ UNCHANGED <<rows, doc, pending, confirmed>>

(* -------------------------------- running ------------------------------ *)

\* The cancel route: the row's flag and the live handle, in one step; the tick of the run would
\* find the flag too. SIGINT, and SIGKILL forceKillAfterMs later.
CancelK6Run(n) ==
  /\ StartsQuiet /\ InProgress(n) /\ rows[n].kind \in K6Kinds
  /\ requestCancel(n)
  /\ proc' = [proc EXCEPT ![n].cancelled = TRUE]
  /\ UNCHANGED <<doc, pending, confirmed>>

\* More than MAX_UNREADABLE_LINES lines of the metrics file: the run stops its own child.
MetricsUnreadable(n) ==
  /\ StartsQuiet /\ proc[n].phase = "live"
  /\ proc' = [proc EXCEPT ![n].unreadable = TRUE, ![n].cancelled = TRUE]
  /\ UNCHANGED <<rows, doc, pending, confirmed>>

\* 0, 108 (the script called abort), 99 and 110, 104 and 107, any other or none.
ExitCodes == {"zero", "abort", "marked", "script-error", "other"}

\* The status of a run whose child ended on its own.
settledStatusOf(kind, code, measured) ==
  IF kind = "chain"
  THEN IF code = "zero" \/ measured THEN "completed" ELSE "failed"
  ELSE IF code \in {"zero", "abort", "marked"} THEN "completed"
       ELSE IF code = "other" /\ measured THEN "completed" ELSE "failed"

\* What the exit is settled as: a chain's aborted setup counts as a failure only when nobody
\* cancelled; unreadable metrics outrank the cancel they caused.
settlementOf_CancelFirst(n, unreadable, code, measured) ==
  IF rows[n].cancel \/ proc[n].cancelled THEN <<"cancelled", "user-requested">>
  ELSE IF unreadable THEN <<"failed", "none">>
  ELSE <<settledStatusOf(rows[n].kind, code, measured), "none">>
settlementOf(n, unreadable, code, measured) ==
  IF rows[n].kind = "chain" /\ code = "abort" /\ ~rows[n].cancel /\ ~proc[n].cancelled
    THEN <<"failed", "none">>
  ELSE IF unreadable THEN <<"failed", "none">>
  ELSE IF rows[n].cancel \/ proc[n].cancelled THEN <<"cancelled", "user-requested">>
  ELSE <<settledStatusOf(rows[n].kind, code, measured), "none">>

\* The child closes. The last drain of its metrics may be what makes them unreadable.
ChildExits(n) ==
  /\ StartsQuiet /\ proc[n].phase = "live"
  /\ \E code \in ExitCodes, measured, lastLines \in BOOLEAN :
       LET how == settlementOf(n, proc[n].unreadable \/ lastLines, code, measured)
       IN settleRun(n, how[1], how[2])
  /\ proc' = [proc EXCEPT ![n] = NoProc]
  /\ UNCHANGED <<doc, pending, confirmed>>

\* The child's "error" event: k6-unavailable, whatever else was asked.
SpawnFails(n) ==
  /\ StartsQuiet /\ proc[n].phase = "live"
  /\ settleRun(n, "failed", "none")
  /\ proc' = [proc EXCEPT ![n] = NoProc]
  /\ UNCHANGED <<doc, pending, confirmed>>

\* A child whose backend is gone ends unheard.
OrphanExits(n) ==
  /\ proc[n].phase = "orphan"
  /\ proc' = [proc EXCEPT ![n] = NoProc]
  /\ UNCHANGED <<rows, doc, pending, confirmed>>

K6Step(n) ==
  \/ RunFailsToStart(n) \/ K6Spawns(n) \/ CancelK6Run(n) \/ MetricsUnreadable(n)
  \/ ChildExits(n) \/ SpawnFails(n) \/ OrphanExits(n)

K6Next ==
  \/ \E k \in K6Kinds : \E text \in Texts(k) : SaveDocument(k, text)
  \/ \E k \in K6Kinds : MakeReady(k) \/ DeleteDocument(k) \/ StartReads(k) \/ StartRefused(k)
  \/ \E k \in K6Kinds, n \in RunIds : StartResumes(k, n)
  \/ \E n \in RunIds : K6Step(n)

(* ------------------------------ properties ----------------------------- *)

\* The bytes a user-script run executes were confirmed, although the script may be replaced while
\* the start waits for the probe (specs/034 FR-013, FR-017).
ConfirmedBytes ==
  \A n \in RunIds :
    rows[n].kind = "user-script" /\ proc[n].phase # "none" => proc[n].text \in confirmed

\* A load run is "cancelled" only if the user asked, and a run the user cancelled never ends
\* "completed", whichever of the exit, the cancel, the kill timer and the unreadable metrics came
\* first (specs/031 D11, D18).
CancelHonored ==
  \A n \in RunIds : rows[n].kind \in K6Kinds =>
    /\ rows[n].status = "cancelled" /\ rows[n].reason = "user-requested" => rows[n].cancel
    /\ rows[n].cancel => rows[n].status # "completed"
=============================================================================
