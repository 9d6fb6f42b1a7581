----------------------------- MODULE ExecutionRuns -----------------------------
(***************************************************************************)
(* All the runs of one session over its one execution slot: the Newman     *)
(* runs of CollectionRuns, the k6 runs of K6Runs, and security runs as the *)
(* slot sees them (SecurityRuns has their detail), with what happens to    *)
(* them all: the idle sweep evicts the session (session/sessionRegistry.ts *)
(* and the onExpire listeners of the stores), and the backend restarts     *)
(* (server.ts).                                                            *)
(***************************************************************************)
EXTENDS CollectionRuns, K6Runs

VARIABLE lab   \* security runs whose runSecurityRun is active

vars == <<rows, collectionVars, k6Vars, lab>>

\* A synchronous piece of a handler or of a runner runs to its next await before anything else.
Quiet == RunnersQuiet /\ StartsQuiet

TypeOK ==
  /\ rows \in [RunIds -> Row]
  /\ CollectionTypeOK /\ K6TypeOK
  /\ lab \subseteq RunIds

Init == SlotInit /\ CollectionInit /\ K6Init /\ lab = {}

(* ---------------------------- security runs ---------------------------- *)

StartSecurity(n) ==
  /\ "security" \in RunKinds /\ Quiet /\ NextRun(n)
  /\ findExecutionInProgress = {}
  /\ createRun(n, "security")
  /\ lab' = lab \cup {n}
  /\ UNCHANGED <<collectionVars, k6Vars>>

SecurityRunEnds(n) ==
  /\ Quiet /\ n \in lab
  /\ \E how \in {<<"completed", "none">>, <<"failed", "none">>, <<"cancelled", "user-requested">>} :
       settleRun(n, how[1], how[2])
  /\ lab' = lab \ {n}
  /\ UNCHANGED <<collectionVars, k6Vars>>

(* ------------------------- eviction and restart ------------------------ *)

\* Sixty idle minutes. A load run touches its session at every tick and a start handler has just
\* been requested, so neither is under way; a Newman run touches nothing, and goes on.
SessionExpires ==
  /\ Quiet
  /\ \A n \in RunIds : proc[n].phase # "live"
  /\ \A k \in K6Kinds : pending[k] = "none"
  /\ deleteBySession
  /\ coll' = [NoCollection EXCEPT !.uploads = coll.uploads]
  /\ doc' = [k \in K6Kinds |-> NoDoc]
  /\ UNCHANGED <<runners, results, sent, agreed, pending, proc, confirmed, lab>>

\* A crash at any point, then the startup of server.ts. What is stored stays; generated chain
\* scripts were in memory; a k6 child is nobody's.
Restart ==
  /\ markInterruptedRunsCancelled
  /\ runners' = [n \in RunIds |-> Finished]
  /\ pending' = [k \in K6Kinds |-> "none"]
  /\ proc' = [n \in RunIds |-> IF proc[n].phase \in {"live", "orphan"}
                               THEN [NoProc EXCEPT !.phase = "orphan", !.text = proc[n].text]
                               ELSE NoProc]
  /\ doc' = [k \in K6Kinds |-> IF k = "chain" THEN [doc[k] EXCEPT !.ready = "none"] ELSE doc[k]]
  /\ lab' = {}
  /\ UNCHANGED <<results, sent, coll, agreed, confirmed>>

Next ==
  \/ StartsQuiet /\ CollectionNext /\ UNCHANGED <<k6Vars, lab>>
  \/ RunnersQuiet /\ K6Next /\ UNCHANGED <<collectionVars, lab>>
  \/ \E n \in RunIds : StartSecurity(n) \/ SecurityRunEnds(n)
  \/ SessionExpires
  \/ Restart

\* Every request ends (Newman's timeouts, the sandbox's deadline), every pause ends, and a child
\* that was sent SIGKILL closes. No fairness of users, of k6 running to its planned end, of
\* eviction or of restarts.
Fairness ==
  \A n \in RunIds :
    /\ WF_vars(RunnerStep(n) /\ UNCHANGED <<k6Vars, lab>>)
    /\ WF_vars((RunFailsToStart(n) \/ K6Spawns(n)) /\ UNCHANGED <<collectionVars, lab>>)
    /\ WF_vars(RunnersQuiet /\ proc[n].cancelled /\ ChildExits(n)
               /\ UNCHANGED <<collectionVars, lab>>)

Spec == Init /\ [][Next]_vars
FairSpec == Spec /\ Fairness

(* ------------------------------ properties ----------------------------- *)

Active(n) ==
  CASE rows[n].kind \in {"generated", "uploaded"} -> runners[n].phase # "none"
    [] rows[n].kind \in K6Kinds -> proc[n].phase \in {"starting", "live"}
    [] rows[n].kind = "security" -> n \in lab
    [] OTHER -> FALSE

\* The slot is taken exactly while something works on the run: no start is refused because of a
\* row nobody will settle, after a crash, an eviction or an error in the runner (FR-008), and no
\* run works on after its row says it ended, unless its data was deleted under it.
InProgressHasRunner ==
  \A n \in RunIds : rows[n].status # "deleted" => (InProgress(n) <=> Active(n))

\* The runs of the session, as the ledger one was promised.
Ledger == INSTANCE RunLedger WITH status <- [n \in RunIds |-> rows[n].status]

SlotSerial == Ledger!Spec

\* A run that sends requests one at a time ends, and so does a load run once it is cancelled.
EveryRunEnds ==
  \A n \in RunIds :
    (InProgress(n) /\ (rows[n].kind \in {"generated", "uploaded"}
                       \/ (rows[n].kind \in K6Kinds /\ rows[n].cancel)))
      ~> ~InProgress(n)
=============================================================================
