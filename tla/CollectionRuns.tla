--------------------------- MODULE CollectionRuns ---------------------------
(***************************************************************************)
(* Runs that send a collection's requests one at a time through Newman:    *)
(* runExecution of the generated collection (execution/runExecution.ts)    *)
(* and runUploadedCollectionExecution (externalCollections/), with the     *)
(* uploaded collection, the confirmation of its scripts and the lock that  *)
(* keeps a running collection from being edited.                           *)
(*                                                                         *)
(* A runner is suspended in a pause or in a request; between two awaits it *)
(* runs to completion, which is the phase "loop": nothing else happens     *)
(* while a runner is in it (RunnersQuiet). Its row, or its collection, may *)
(* be gone when it resumes.                                                *)
(***************************************************************************)
EXTENDS ExecutionSlot, Sequences

CONSTANTS
  Items,        \* requests of the collection
  Collection,   \* per item: flow (0: standalone), position in it (standalone: in the collection),
                \* the items whose data it needs, synthesized
  Orders,       \* the run orders a client asks for (selectedRequestIds), no item twice
  Scripts,      \* what the scripts of an uploaded collection may be, by hash
  MaxUploads    \* bound: uploads of the session

ASSUME CollectionAssumption ==
  /\ Collection \in [Items -> [flow : Nat, position : Nat, needs : SUBSET Items,
                               synthesized : BOOLEAN]]
  /\ IsFiniteSet(Items) /\ Orders \subseteq Seq(Items) /\ MaxUploads \in Nat /\ "none" \notin Scripts
  /\ \A order \in Orders : \A i, j \in DOMAIN order : order[i] = order[j] => i = j

VARIABLES
  runners,   \* per run: the suspended runExecution, or Finished
  results,   \* per run: results recorded, in order
  sent,      \* per run: items handed to Newman
  coll,      \* the session's uploaded collection
  agreed     \* history: scripts a client confirmed

collectionVars == <<runners, results, sent, coll, agreed>>

Attempted == {"passed", "assertion-failed", "failed"}
NotAttempted == {"cancelled", "dependency-not-met", "run-ended-before-reached"}
Runner == [phase : {"none", "loop", "pausing", "sending"}, order : Seq(Items), index : Nat \ {0},
           attempted : Nat, blocked : SUBSET Items, delay : BOOLEAN, paused : BOOLEAN,
           collection : 0..MaxUploads, scripts : Scripts \cup {"none"}]

Finished == [phase |-> "none", order |-> <<>>, index |-> 1, attempted |-> 0, blocked |-> {},
             delay |-> FALSE, paused |-> FALSE, collection |-> 0, scripts |-> "none"]
NoCollection == [id |-> 0, uploads |-> 0, scripts |-> "none", confirmed |-> "none"]

CollectionTypeOK ==
  /\ runners \in [RunIds -> Runner]
  /\ results \in [RunIds -> Seq([item : Items, outcome : Attempted \cup NotAttempted])]
  /\ sent \in [RunIds -> SUBSET Items]
  /\ coll \in [id : 0..MaxUploads, uploads : 0..MaxUploads,
               scripts : Scripts \cup {"none"}, confirmed : Scripts \cup {"none"}]
  /\ agreed \subseteq Scripts

CollectionInit ==
  /\ runners = [n \in RunIds |-> Finished]
  /\ results = [n \in RunIds |-> <<>>] /\ sent = [n \in RunIds |-> {}]
  /\ coll = NoCollection /\ agreed = {}

RunnersQuiet == \A n \in RunIds : runners[n].phase # "loop"

(* --------------------------- the run order ----------------------------- *)

\* Steps of approved workflows first, grouped by workflow and by position in it, then the rest as
\* the collection has them.
Before(a, b) ==
  LET fa == Collection[a].flow  fb == Collection[b].flow
  IN \/ fa # 0 /\ fb = 0
     \/ fa # 0 /\ fb # 0 /\ fa < fb
     \/ fa = fb /\ Collection[a].position < Collection[b].position

\* A hand-off is kept only when its producer comes first: by step position in a workflow
\* (planApprovedWorkflows), by rank in the collection for an automatic chain (specs/019 FR-015).
\* No hand-off leads to a synthesized item.
ASSUME HandOffAssumption ==
  \A item \in Items :
    /\ \A producer \in Collection[item].needs : Before(producer, item)
    /\ Collection[item].synthesized => Collection[item].needs = {}

\* The orders the sort may give; which of two equal items comes first is left open.
executionOrder ==
  { q \in [1..Cardinality(Items) -> Items] :
      \A i, j \in DOMAIN q : i < j => q[i] # q[j] /\ ~Before(q[j], q[i]) }

(* ------------------------------- start --------------------------------- *)

begin(n, kind, order, scripts) ==
  /\ createRun(n, kind)
  /\ \E delay \in BOOLEAN :
       runners' = [runners EXCEPT ![n] =
         [Finished EXCEPT !.phase = "loop", !.order = order, !.delay = delay,
                          !.scripts = scripts,
                          !.collection = IF kind = "uploaded" THEN coll.id ELSE 0]]
  /\ UNCHANGED <<results, sent>>

\* Starts of the generated collection; a refused start leaves the rows alone.
StartGenerated(n) ==
  /\ "generated" \in RunKinds /\ RunnersQuiet /\ NextRun(n)
  /\ findExecutionInProgress = {}
  /\ \E order \in executionOrder : begin(n, "generated", order, "none")
  /\ UNCHANGED <<coll, agreed>>

confirmedAt == coll.confirmed # "none" /\ coll.confirmed = coll.scripts
confirmationVoided == coll.confirmed # "none" /\ coll.confirmed # coll.scripts

\* Gate 1: the scripts as they are now are confirmed, by the hash the client was shown; a client
\* may leave the hash out while nothing was ever confirmed.
seenCurrentScripts_Any(claimed) == TRUE
seenCurrentScripts(claimed) ==
  IF claimed = "none" THEN ~confirmationVoided ELSE claimed = coll.scripts

markConfirmed(claimed) ==
  /\ coll' = [coll EXCEPT !.confirmed = coll.scripts]
  /\ agreed' = agreed \cup {IF claimed = "none" THEN coll.scripts ELSE claimed}

\* Both gates. `risky`: the tier or a destructive request asks for a confirmation of its own, which
\* the confirmation of the scripts does not give.
StartUploaded(n, confirmed, claimed, risky, order) ==
  /\ RunnersQuiet /\ NextRun(n) /\ coll.id # 0
  /\ findExecutionInProgress = {}
  /\ IF confirmedAt
     THEN /\ risky => confirmed
          /\ begin(n, "uploaded", order, coll.scripts)
          /\ UNCHANGED <<coll, agreed>>
     ELSE /\ confirmed /\ seenCurrentScripts(claimed)
          /\ markConfirmed(claimed)
          /\ IF risky THEN UNCHANGED <<rows, runners, results, sent>>
                      ELSE begin(n, "uploaded", order, coll.scripts)

\* Cancel routes: the run in progress of that kind.
CancelCollectionRun(n) ==
  /\ RunnersQuiet /\ InProgress(n) /\ rows[n].kind \in {"generated", "uploaded"}
  /\ requestCancel(n)
  /\ UNCHANGED collectionVars

(* ------------------------------ the runner ----------------------------- *)

\* A synthesized item (an OAuth2 token request) has no scenario, and its outcome is not recorded.
Reported(n, item) == rows[n].kind = "uploaded" \/ ~Collection[item].synthesized

appendResult(n, item, outcome) ==
  results' = [results EXCEPT ![n] = Append(@, [item |-> item, outcome |-> outcome])]

\* The places of a finite set of them, first to last: one sequence.
InOrder(places) ==
  { at \in [1..Cardinality(places) -> places] : \A i, j \in DOMAIN at : i < j => at[i] < at[j] }

ReportedPlaces(n, order, from) == {p \in from..Len(order) : Reported(n, order[p])}

\* The requests of the order from the place `first` on.
appendNotAttempted(n, first, reason) ==
  LET order == runners[n].order
  IN \E at \in InOrder(ReportedPlaces(n, order, first)) :
       results' = [results EXCEPT ![n] =
         @ \o [i \in DOMAIN at |-> [item |-> order[at[i]], outcome |-> reason]]]

end(n) == runners' = [runners EXCEPT ![n] = Finished]

\* Any read or write of a deleted row throws, in the catch block too: the runner just ends.
RowGone(n) ==
  /\ rows[n].status = "deleted"
  /\ end(n)
  /\ UNCHANGED <<rows, results, sent, coll, agreed>>

\* The catch block: what was not finished is recorded, and the run settles.
catch_AfterFailed(n) ==
  LET r == runners[n]
  IN /\ appendNotAttempted(n, r.attempted + 2, "run-ended-before-reached")
     /\ settleRun(n, "completed", "none")
     /\ end(n)
     /\ UNCHANGED <<sent, coll, agreed>>
catch_Unsettled(n) ==
  /\ end(n)
  /\ UNCHANGED <<rows, results, sent, coll, agreed>>
catch(n) ==
  LET r == runners[n]
  IN /\ appendNotAttempted(n, r.attempted + 1, "run-ended-before-reached")
     /\ settleRun(n, "completed", "none")
     /\ end(n)
     /\ UNCHANGED <<sent, coll, agreed>>

LoopCancelled(n) ==
  LET r == runners[n]
  IN /\ r.index <= Len(r.order) /\ rows[n].cancel
     /\ appendNotAttempted(n, r.index, "cancelled")
     /\ settleRun(n, "cancelled", "user-requested")
     /\ end(n)
     /\ UNCHANGED <<sent, coll, agreed>>

LoopPauses(n) ==
  LET r == runners[n]
  IN /\ r.index <= Len(r.order) /\ ~rows[n].cancel
     /\ r.index > 1 /\ r.delay /\ ~r.paused
     /\ runners' = [runners EXCEPT ![n].phase = "pausing"]
     /\ UNCHANGED <<rows, results, sent, coll, agreed>>

\* The pause is over, or there is none: the item is withheld or sent.
ReadyToSend_NoRecheck(n) ==
  LET r == runners[n]
  IN r.index <= Len(r.order) /\ (r.index = 1 \/ ~r.delay \/ r.paused)
ReadyToSend(n) ==
  LET r == runners[n]
  IN r.index <= Len(r.order) /\ ~rows[n].cancel /\ (r.index = 1 \/ ~r.delay \/ r.paused)

unmet(n, item) ==
  IF rows[n].kind = "generated" /\ ~Collection[item].synthesized
  THEN Collection[item].needs \cap runners[n].blocked ELSE {}

next(r, blocked) ==
  [r EXCEPT !.phase = "loop", !.attempted = r.index, !.index = r.index + 1,
            !.blocked = blocked, !.paused = FALSE]

LoopWithholds_NotBlocked(n) ==
  LET r == runners[n]  item == r.order[r.index]
  IN /\ ReadyToSend(n) /\ unmet(n, item) # {}
     /\ appendResult(n, item, "dependency-not-met")
     /\ runners' = [runners EXCEPT ![n] = next(r, r.blocked)]
     /\ UNCHANGED <<rows, sent, coll, agreed>>
LoopWithholds(n) ==
  LET r == runners[n]  item == r.order[r.index]
  IN /\ ReadyToSend(n) /\ unmet(n, item) # {}
     /\ appendResult(n, item, "dependency-not-met")
     /\ runners' = [runners EXCEPT ![n] = next(r, r.blocked \cup {item})]
     /\ UNCHANGED <<rows, sent, coll, agreed>>

LoopSends(n) ==
  LET r == runners[n]  item == r.order[r.index]
  IN /\ ReadyToSend(n) /\ unmet(n, item) = {}
     /\ sent' = [sent EXCEPT ![n] = @ \cup {item}]
     /\ runners' = [runners EXCEPT ![n].phase = "sending"]
     /\ UNCHANGED <<rows, results, coll, agreed>>

LoopEnds(n) ==
  /\ runners[n].index > Len(runners[n].order)
  /\ settleRun(n, "completed", "none")
  /\ end(n)
  /\ UNCHANGED <<results, sent, coll, agreed>>

Loop(n) ==
  /\ runners[n].phase = "loop"
  /\ \/ RowGone(n)
     \/ /\ rows[n].status # "deleted"
        /\ \/ LoopCancelled(n) \/ LoopPauses(n) \/ LoopWithholds(n) \/ LoopSends(n)
           \/ LoopEnds(n)

PauseEnds(n) ==
  /\ RunnersQuiet /\ runners[n].phase = "pausing"
  /\ runners' = [runners EXCEPT ![n].phase = "loop", ![n].paused = TRUE]
  /\ UNCHANGED <<rows, results, sent, coll, agreed>>

isBlocking(outcome) == outcome = "failed"

\* Newman answers. An uploaded run stores the variables its scripts set, which throws when the
\* collection was removed meanwhile; then it records the result.
RequestAnswered(n, outcome) ==
  LET r == runners[n]  item == r.order[r.index]
      blocked == IF isBlocking(outcome) /\ rows[n].kind = "generated" /\ Reported(n, item)
                 THEN r.blocked \cup {item} ELSE r.blocked
  IN /\ RunnersQuiet /\ r.phase = "sending"
     /\ IF rows[n].status = "deleted"
        THEN RowGone(n)
        ELSE IF r.collection # 0 /\ coll.id # r.collection
        THEN catch(n)
        ELSE /\ IF Reported(n, item) THEN appendResult(n, item, outcome) ELSE UNCHANGED results
             /\ runners' = [runners EXCEPT ![n] = next(r, blocked)]
             /\ UNCHANGED <<rows, sent, coll, agreed>>

\* The sandboxed child dies, or its item times out: runSingleItem rejects.
RequestRejected(n) ==
  /\ RunnersQuiet /\ runners[n].phase = "sending"
  /\ IF rows[n].status = "deleted" THEN RowGone(n) ELSE catch(n)

RunnerStep(n) ==
  \/ Loop(n) \/ PauseEnds(n) \/ RequestRejected(n)
  \/ \E outcome \in Attempted : RequestAnswered(n, outcome)

(* ------------------------ the uploaded collection ---------------------- *)

UploadCollection(scripts) ==
  /\ "uploaded" \in RunKinds /\ RunnersQuiet
  /\ coll.id = 0 /\ coll.uploads < MaxUploads
  /\ coll' = [id |-> coll.uploads + 1, uploads |-> coll.uploads + 1,
              scripts |-> scripts, confirmed |-> "none"]
  /\ UNCHANGED <<rows, runners, results, sent, agreed>>

assertCollectionNotRunning ==
  ~ \E n \in RunIds : InProgress(n) /\ runners[n].collection = coll.id

\* Request edits, added, deleted, renamed and reordered items: all rewrite the body.
EditCollection(scripts) ==
  /\ RunnersQuiet /\ coll.id # 0
  /\ assertCollectionNotRunning
  /\ coll' = [coll EXCEPT !.scripts = scripts]
  /\ UNCHANGED <<rows, runners, results, sent, agreed>>

\* DELETE takes no lock.
RemoveCollection ==
  /\ RunnersQuiet /\ coll.id # 0
  /\ coll' = [NoCollection EXCEPT !.uploads = coll.uploads]
  /\ UNCHANGED <<rows, runners, results, sent, agreed>>

CollectionNext ==
  \/ \E n \in RunIds : StartGenerated(n) \/ CancelCollectionRun(n) \/ RunnerStep(n)
  \/ \E n \in RunIds, confirmed, risky \in BOOLEAN, claimed \in Scripts \cup {"none"},
        order \in Orders : StartUploaded(n, confirmed, claimed, risky, order)
  \/ \E scripts \in Scripts : UploadCollection(scripts) \/ EditCollection(scripts)
  \/ RemoveCollection

(* ------------------------------ properties ----------------------------- *)

RecordedItems(n) == [i \in DOMAIN results[n] |-> results[n][i].item]
SettledByRunner(n) ==
  rows[n].status = "completed" \/ (rows[n].status = "cancelled" /\ rows[n].reason = "user-requested")

\* A run its runner settled has exactly one result per reportable request of its order, in that
\* order, however it ended: at the last request, by a cancel in a pause, by a rejected request.
EveryRequestRecorded ==
  \A n \in RunIds :
    rows[n].kind \in {"generated", "uploaded"} /\ SettledByRunner(n) =>
      \E order \in IF rows[n].kind = "generated" THEN executionOrder ELSE Orders :
        \E at \in InOrder(ReportedPlaces(n, order, 1)) :
          RecordedItems(n) = [i \in DOMAIN at |-> order[at[i]]]

\* A request recorded as withheld or cancelled was never sent, and none is sent whose producer
\* failed or was itself withheld (specs/029 FR-001, FR-005).
WithheldNotSent ==
  \A n \in RunIds : \A i \in DOMAIN results[n] :
    LET this == results[n][i]
    IN /\ this.outcome \in {"cancelled", "dependency-not-met"} => this.item \notin sent[n]
       /\ rows[n].kind = "generated" /\ this.outcome \in {"failed", "dependency-not-met"} =>
            \A item \in sent[n] : this.item \notin Collection[item].needs

\* Once the cancel route has answered, the run sends nothing more, whether it was in a request, in
\* a pause or between the two (research.md D6).
NothingSentAfterCancel ==
  [][ \A n \in RunIds : rows[n].cancel => sent'[n] = sent[n] ]_<<rows, sent>>

\* The scripts a run executes were confirmed by the client, and stay those of the stored collection
\* until it is removed (specs/026 FR-007, FR-017).
ConfirmedCollection ==
  \A n \in RunIds :
    LET r == runners[n]
    IN r.collection # 0 =>
         /\ r.scripts \in agreed
         /\ rows[n].status = "in-progress" /\ coll.id = r.collection => coll.scripts = r.scripts
=============================================================================
