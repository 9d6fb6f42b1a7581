------------------------- MODULE ExecutionRunsProofs -------------------------
(***************************************************************************)
(* Proofs about the runs of a session and their slot, for any collection,  *)
(* any run orders, any documents and any number of runs. What every step   *)
(* does to rows, runners and children is stated first (the Moves lemmas);  *)
(* the invariants and the refinement follow from that alone.               *)
(***************************************************************************)
EXTENDS ExecutionRuns, FiniteSetTheorems, TLAPS

\* A request is under way only for an item of the order; a runner that ended holds no collection.
WellFormed(r) ==
  (r.phase = "sending" => r.index <= Len(r.order)) /\ (r.phase = "none" => r.collection = 0)

\* The part of the type invariant the argument needs; what a run records is left out.
Types ==
  /\ rows \in [RunIds -> Row]
  /\ runners \in [RunIds -> Runner]
  /\ \A n \in RunIds : WellFormed(runners[n])
  /\ coll \in [id : 0..MaxUploads, uploads : 0..MaxUploads,
               scripts : Scripts \cup {"none"}, confirmed : Scripts \cup {"none"}]
  /\ doc \in [K6Kinds -> [content : Text, ready : Text]]
  /\ pending \in [K6Kinds -> Text]
  /\ proc \in [RunIds -> [phase : {"none", "starting", "live", "orphan"}, text : Text,
                          cancelled : BOOLEAN, unreadable : BOOLEAN]]
  /\ lab \subseteq RunIds

Working(n) ==
  runners[n].phase # "none" \/ proc[n].phase \in {"starting", "live"} \/ n \in lab

\* One run in progress, something works on it, and whatever works on a run is of its kind.
SlotInv ==
  /\ \A m, n \in RunIds : InProgress(m) /\ InProgress(n) => m = n
  /\ \A n \in RunIds : InProgress(n) => Working(n)
  /\ \A n \in RunIds : runners[n].phase # "none" =>
       /\ rows[n].kind \in {"generated", "uploaded"}
       /\ rows[n].status \in {"in-progress", "deleted"}
  /\ \A n \in RunIds : proc[n].phase \in {"starting", "live"} =>
       rows[n].kind \in K6Kinds /\ InProgress(n)
  /\ \A n \in lab : rows[n].kind = "security" /\ InProgress(n)

\* What may still be run was confirmed.
BytesInv ==
  /\ "user-script" \in K6Kinds =>
       /\ doc["user-script"].ready \in confirmed \cup {"none"}
       /\ pending["user-script"] \in confirmed \cup {"none"}
  /\ ConfirmedBytes

\* A live child knows of a cancel, and a child that was stopped without one had unreadable metrics.
CancelInv ==
  /\ \A n \in RunIds : proc[n].phase \in {"starting", "live"} =>
       /\ rows[n].cancel => proc[n].cancelled
       /\ proc[n].cancelled => rows[n].cancel \/ proc[n].unreadable
  /\ CancelHonored

\* Collections have new ids, and a confirmation stored is one that was given.
ScriptsInv ==
  /\ coll.id <= coll.uploads
  /\ coll.confirmed \in agreed \cup {"none"}
  /\ \A n \in RunIds : runners[n].collection <= coll.uploads
  /\ ConfirmedCollection

Inv == Types /\ SlotInv /\ BytesInv /\ CancelInv /\ ScriptsInv

(* ------------------------- what a step changes ------------------------- *)

\* A runner's row ends as the runner says.
RunnerSettles(n) ==
  /\ runners[n].phase # "none" /\ rows[n].status # "deleted"
  /\ \E how \in {<<"completed", "none">>, <<"cancelled", "user-requested">>} :
       settleRun(n, how[1], how[2])
  /\ end(n)

RunnerMoves(n) ==
  /\ runners[n].phase # "none" /\ UNCHANGED rows
  /\ \E r \in Runner : /\ runners' = [runners EXCEPT ![n] = r]
                       /\ r.phase # "none" /\ WellFormed(r)
                       /\ r.collection = runners[n].collection
                       /\ r.scripts = runners[n].scripts

RunnerVanishes(n) ==
  /\ rows[n].status = "deleted" /\ UNCHANGED rows
  /\ end(n)

LEMMA ItemOfOrder ==
  ASSUME NEW r \in Runner, r.index <= Len(r.order) PROVE r.order[r.index] \in Items
BY DEF Runner

LEMMA NextRunner ==
  ASSUME NEW r \in Runner, NEW blocked \in SUBSET Items
  PROVE  /\ next(r, blocked) \in Runner /\ next(r, blocked).phase = "loop"
         /\ next(r, blocked).collection = r.collection /\ next(r, blocked).scripts = r.scripts
<1> DEFINE q1 == [r EXCEPT !.phase = "loop", !.attempted = r.index]
           q2 == [q1 EXCEPT !.index = r.index + 1]
           q3 == [q2 EXCEPT !.blocked = blocked, !.paused = FALSE]
<1>1. r.index + 1 \in Nat \ {0} /\ r.index \in Nat BY DEF Runner
<1>2. q1 \in Runner /\ q1.phase = "loop" /\ q1.collection = r.collection /\ q1.scripts = r.scripts
  BY <1>1 DEF Runner
<1>3. q2 \in Runner /\ q2.phase = "loop" /\ q2.collection = r.collection /\ q2.scripts = r.scripts
  <2> HIDE DEF q1
  <2> QED BY <1>1, <1>2 DEF Runner
<1>4. q3 \in Runner /\ q3.phase = "loop" /\ q3.collection = r.collection /\ q3.scripts = r.scripts
  <2> HIDE DEF q1, q2
  <2> QED BY <1>3 DEF Runner
<1>5. next(r, blocked) = q3 BY DEF next
<1> HIDE DEF q1, q2, q3
<1> QED BY <1>4, <1>5

LEMMA LoopMoves ==
  ASSUME Types, NEW n \in RunIds, Loop(n)
  PROVE  /\ RunnerSettles(n) \/ RunnerMoves(n) \/ RunnerVanishes(n)
         /\ UNCHANGED <<coll, agreed>>
<1> DEFINE r == runners[n]
<1>0. r \in Runner /\ r.phase = "loop" BY DEF Types, Loop
<1>1. CASE RowGone(n) BY <1>1 DEF RowGone, RunnerVanishes
<1>2. CASE LoopCancelled(n) /\ rows[n].status # "deleted"
  BY <1>0, <1>2 DEF LoopCancelled, RunnerSettles
<1>3. CASE LoopEnds(n) /\ rows[n].status # "deleted"
  BY <1>0, <1>3 DEF LoopEnds, RunnerSettles
<1>4. CASE LoopPauses(n)
  <2>1. [r EXCEPT !.phase = "pausing"] \in Runner BY <1>0 DEF Runner
  <2>2. runners' = [runners EXCEPT ![n] = [r EXCEPT !.phase = "pausing"]]
    BY <1>4 DEF LoopPauses
  <2> QED BY <1>0, <1>4, <2>1, <2>2 DEF LoopPauses, RunnerMoves, Runner, WellFormed
<1>5. CASE LoopSends(n)
  <2>1. [r EXCEPT !.phase = "sending"] \in Runner BY <1>0 DEF Runner
  <2>2. runners' = [runners EXCEPT ![n] = [r EXCEPT !.phase = "sending"]]
    BY <1>5 DEF LoopSends
  <2>3. r.index <= Len(r.order) BY <1>5 DEF LoopSends, ReadyToSend
  <2> QED BY <1>0, <1>5, <2>1, <2>2, <2>3 DEF LoopSends, RunnerMoves, Runner, WellFormed
<1>6. CASE LoopWithholds(n)
  <2>1. r.index <= Len(r.order) BY <1>6 DEF LoopWithholds, ReadyToSend
  <2>2. r.blocked \cup {r.order[r.index]} \in SUBSET Items
    BY <1>0, <2>1, ItemOfOrder DEF Runner
  <2>3. runners' = [runners EXCEPT ![n] = next(r, r.blocked \cup {r.order[r.index]})]
    BY <1>6 DEF LoopWithholds
  <2> QED BY <1>0, <1>6, <2>1, <2>2, <2>3, NextRunner DEF LoopWithholds, RunnerMoves, WellFormed
<1> QED BY <1>1, <1>2, <1>3, <1>4, <1>5, <1>6 DEF Loop

LEMMA OrdersTyped == executionOrder \subseteq Seq(Items)
<1>1. Cardinality(Items) \in Nat BY CollectionAssumption, FS_CardinalityType
<1>2. \A q \in [1..Cardinality(Items) -> Items] : q \in Seq(Items) BY <1>1
<1> QED BY <1>2 DEF executionOrder

\* Between two awaits, and after one.
LEMMA RunnerStepMoves ==
  ASSUME Types, NEW n \in RunIds, RunnerStep(n)
  PROVE  /\ RunnerSettles(n) \/ RunnerMoves(n) \/ RunnerVanishes(n)
         /\ UNCHANGED <<coll, agreed>>
<1> DEFINE r == runners[n]
<1>0. r \in Runner /\ WellFormed(r) BY DEF Types
<1>1. CASE Loop(n) BY <1>1, LoopMoves
<1>2. CASE PauseEnds(n)
  <2>1. [r EXCEPT !.phase = "loop", !.paused = TRUE] \in Runner BY <1>0 DEF Runner
  <2>2. runners' = [runners EXCEPT ![n] = [r EXCEPT !.phase = "loop", !.paused = TRUE]]
    BY <1>0, <1>2 DEF PauseEnds, Types, Runner
  <2> QED BY <1>0, <1>2, <2>1, <2>2 DEF PauseEnds, RunnerMoves, Runner, WellFormed
<1>3. CASE RowGone(n) BY <1>3 DEF RowGone, RunnerVanishes
<1>4. CASE catch(n) /\ r.phase = "sending" /\ rows[n].status # "deleted"
  BY <1>4 DEF catch, RunnerSettles
<1>5. CASE RequestRejected(n) BY <1>3, <1>4, <1>5 DEF RequestRejected
<1>6. ASSUME NEW outcome \in Attempted, RequestAnswered(n, outcome), ~RowGone(n), ~catch(n)
      PROVE  RunnerMoves(n) /\ UNCHANGED <<coll, agreed>>
  <2> DEFINE blocked == IF isBlocking(outcome) /\ rows[n].kind = "generated"
                             /\ Reported(n, r.order[r.index])
                        THEN r.blocked \cup {r.order[r.index]} ELSE r.blocked
  <2>1. r.phase = "sending" BY <1>6 DEF RequestAnswered
  <2>2. blocked \in SUBSET Items BY <1>0, <2>1, ItemOfOrder DEF WellFormed, Runner
  <2>3. runners' = [runners EXCEPT ![n] = next(r, blocked)] /\ UNCHANGED <<rows, coll, agreed>>
    BY <1>6 DEF RequestAnswered
  <2> HIDE DEF blocked
  <2> QED BY <1>0, <2>1, <2>2, <2>3, NextRunner DEF RunnerMoves, WellFormed
<1>7. ASSUME NEW outcome \in Attempted, RequestAnswered(n, outcome), catch(n), ~RowGone(n)
      PROVE  RunnerSettles(n) /\ UNCHANGED <<coll, agreed>>
  BY <1>7 DEF RequestAnswered, catch, RunnerSettles
<1> QED BY <1>1, <1>2, <1>3, <1>5, <1>6, <1>7 DEF RunnerStep

\* The row and the runner of a run that starts; its scripts are the collection's, and agreed to.
RunBegins(n, kind) ==
  /\ NextRun(n) /\ findExecutionInProgress = {}
  /\ createRun(n, kind)
  /\ \E r \in Runner : /\ runners' = [runners EXCEPT ![n] = r]
                       /\ r.phase = "loop" /\ r.collection \in {0, coll.id}
                       /\ r.collection # 0 => r.scripts = coll.scripts /\ r.scripts \in agreed'

\* The scripts of the collection are confirmed.
Confirms ==
  /\ coll' = [coll EXCEPT !.confirmed = coll.scripts]
  /\ agreed \subseteq agreed' /\ coll.scripts \in agreed'

LEMMA BeginMoves ==
  ASSUME Types, NEW n \in RunIds, NEW kind \in {"generated", "uploaded"}, NEW order \in Seq(Items),
         NEW scripts \in Scripts \cup {"none"}, NextRun(n), findExecutionInProgress = {},
         begin(n, kind, order, scripts),
         kind = "uploaded" => scripts = coll.scripts /\ coll.scripts \in agreed'
  PROVE  RunBegins(n, kind)
<1>1. PICK delay \in BOOLEAN :
        runners' = [runners EXCEPT ![n] =
          [Finished EXCEPT !.phase = "loop", !.order = order, !.delay = delay, !.scripts = scripts,
                           !.collection = IF kind = "uploaded" THEN coll.id ELSE 0]]
  BY DEF begin
<1> DEFINE c == IF kind = "uploaded" THEN coll.id ELSE 0
           q1 == [Finished EXCEPT !.phase = "loop", !.order = order]
           q2 == [q1 EXCEPT !.delay = delay, !.scripts = scripts]
           q3 == [q2 EXCEPT !.collection = c]
<1>2. c \in 0..MaxUploads /\ 0 \in 0..MaxUploads BY CollectionAssumption DEF Types
<1> HIDE DEF c
<1>3. Finished \in Runner BY <1>2 DEF Runner, Finished
<1>4. q1 \in Runner /\ q1.phase = "loop" BY <1>3 DEF Runner
<1>5. q2 \in Runner /\ q2.phase = "loop" /\ q2.scripts = scripts
  <2> HIDE DEF q1
  <2> QED BY <1>4 DEF Runner
<1>6. q3 \in Runner /\ q3.phase = "loop" /\ q3.scripts = scripts /\ q3.collection = c
  <2> HIDE DEF q1, q2
  <2> QED BY <1>2, <1>5 DEF Runner
<1>7. runners' = [runners EXCEPT ![n] = q3] BY <1>1 DEF c
<1> HIDE DEF q1, q2, q3
<1>8. c \in {0, coll.id} /\ (kind = "generated" => c = 0) BY DEF c
<1> QED BY <1>6, <1>7, <1>8 DEF begin, RunBegins

LEMMA CollectionMoves ==
  ASSUME Types, ScriptsInv, CollectionNext
  PROVE  \/ \E n \in RunIds : /\ RunnerSettles(n) \/ RunnerMoves(n) \/ RunnerVanishes(n)
                              /\ UNCHANGED <<coll, agreed>>
         \/ \E n \in RunIds, kind \in {"generated", "uploaded"} :
              /\ RunBegins(n, kind)
              /\ UNCHANGED <<coll, agreed>> \/ Confirms
         \/ \E n \in RunIds : CancelCollectionRun(n)
         \/ UNCHANGED <<rows, runners>> /\ Confirms
         \/ \E scripts \in Scripts : UploadCollection(scripts) \/ EditCollection(scripts)
         \/ RemoveCollection
<1>1. ASSUME NEW n \in RunIds, StartGenerated(n)
      PROVE  RunBegins(n, "generated") /\ UNCHANGED <<coll, agreed>>
  <2>1. PICK order \in executionOrder : begin(n, "generated", order, "none")
    BY <1>1 DEF StartGenerated
  <2> QED BY <1>1, <2>1, OrdersTyped, BeginMoves DEF StartGenerated
<1>2. ASSUME NEW n \in RunIds, NEW claimed \in Scripts \cup {"none"}, NEW yes \in BOOLEAN,
             NEW risky \in BOOLEAN, NEW order \in Orders,
             StartUploaded(n, yes, claimed, risky, order)
      PROVE  \/ RunBegins(n, "uploaded") /\ (UNCHANGED <<coll, agreed>> \/ Confirms)
             \/ UNCHANGED <<rows, runners>> /\ Confirms
  <2>0. /\ NextRun(n) /\ findExecutionInProgress = {} /\ order \in Seq(Items)
        /\ coll.scripts \in Scripts \cup {"none"}
    BY <1>2, CollectionAssumption DEF StartUploaded, Types
  <2>1. CASE confirmedAt
    <3>1. /\ begin(n, "uploaded", order, coll.scripts) /\ UNCHANGED <<coll, agreed>>
          /\ coll.scripts \in agreed
      BY <1>2, <2>1 DEF StartUploaded, confirmedAt, ScriptsInv
    <3> QED BY <2>0, <3>1, BeginMoves
  <2>2. CASE ~confirmedAt
    <3>1. markConfirmed(claimed) /\ seenCurrentScripts(claimed) BY <1>2, <2>2 DEF StartUploaded
    <3>2. Confirms BY <3>1 DEF markConfirmed, seenCurrentScripts, Confirms
    <3>3. UNCHANGED <<rows, runners>> \/ begin(n, "uploaded", order, coll.scripts)
      BY <1>2, <2>2 DEF StartUploaded
    <3>4. coll.scripts \in agreed' BY <3>2 DEF Confirms
    <3> QED BY <2>0, <3>2, <3>3, <3>4, BeginMoves
  <2> QED BY <2>1, <2>2
<1> QED BY <1>1, <1>2, RunnerStepMoves DEF CollectionNext

(* ------------------- what the operations on rows give ------------------ *)

LEMMA SettleRow ==
  ASSUME rows \in [RunIds -> Row], NEW n \in RunIds, NEW status \in {"completed", "cancelled", "failed"},
         NEW reason \in {"none", "user-requested"}, settleRun(n, status, reason)
  PROVE  /\ rows' \in [RunIds -> Row]
         /\ \A m \in RunIds : m # n => rows'[m] = rows[m]
         /\ rows'[n].kind = rows[n].kind /\ rows'[n].cancel = rows[n].cancel
         /\ rows'[n].status = status /\ rows'[n].reason = reason
BY DEF settleRun, Row

LEMMA CancelRow ==
  ASSUME rows \in [RunIds -> Row], NEW n \in RunIds, requestCancel(n)
  PROVE  /\ rows' \in [RunIds -> Row]
         /\ \A m \in RunIds : m # n => rows'[m] = rows[m]
         /\ rows'[n].kind = rows[n].kind /\ rows'[n].cancel
         /\ rows'[n].status = rows[n].status /\ rows'[n].reason = rows[n].reason
BY DEF requestCancel, Row

LEMMA CreateRow ==
  ASSUME rows \in [RunIds -> Row], NEW n \in RunIds, NEW kind \in Kinds, createRun(n, kind)
  PROVE  /\ rows' \in [RunIds -> Row]
         /\ \A m \in RunIds : m # n => rows'[m] = rows[m]
         /\ rows'[n].kind = kind /\ ~rows'[n].cancel
         /\ rows'[n].status = "in-progress" /\ rows'[n].reason = "none"
BY DEF createRun, Row

(* ------------------------ Newman runs keep it all ---------------------- *)

LEMMA BytesFrame ==
  ASSUME BytesInv, UNCHANGED k6Vars, \A n \in RunIds : rows'[n].kind # rows[n].kind =>
                                                      rows'[n].kind # "user-script"
  PROVE  BytesInv'
BY DEF BytesInv, ConfirmedBytes, k6Vars

LEMMA SlotFrame ==
  ASSUME SlotInv, UNCHANGED <<runners, proc, lab>>, lab \subseteq RunIds,
         \A m \in RunIds : rows'[m].kind = rows[m].kind /\ rows'[m].status = rows[m].status
  PROVE  SlotInv'
<1> USE DEF SlotInv, InProgress
<1>1. \A m, n \in RunIds : InProgress(m)' /\ InProgress(n)' => m = n OBVIOUS
<1>2. \A n \in RunIds : InProgress(n)' => Working(n)' BY DEF Working
<1>3. \A n \in lab : rows'[n].kind = "security" /\ rows'[n].status = "in-progress" OBVIOUS
<1> QED BY <1>1, <1>2, <1>3

LEMMA SettlesKeeps ==
  ASSUME Inv, NEW n \in RunIds, RunnerSettles(n), UNCHANGED <<coll, agreed, k6Vars, lab>>
  PROVE  Inv'
<1> USE DEF k6Vars
<1>1. PICK how \in {<<"completed", "none">>, <<"cancelled", "user-requested">>} :
        settleRun(n, how[1], how[2])
  BY DEF RunnerSettles
<1>2. /\ how[1] \in {"completed", "cancelled", "failed"} /\ how[2] \in {"none", "user-requested"}
      /\ how[1] # "in-progress"
  OBVIOUS
<1>3. /\ rows' \in [RunIds -> Row]
      /\ \A m \in RunIds : m # n => rows'[m] = rows[m]
      /\ rows'[n].kind = rows[n].kind /\ rows'[n].status = how[1]
  BY <1>1, <1>2, SettleRow DEF Inv, Types
<1>4. /\ runners' = [runners EXCEPT ![n] = Finished]
      /\ Finished \in Runner /\ WellFormed(Finished)
      /\ Finished.phase = "none" /\ Finished.collection = 0
  BY CollectionAssumption DEF RunnerSettles, end, Finished, Runner, WellFormed
<1>5. /\ runners' \in [RunIds -> Runner] /\ runners'[n] = Finished
      /\ \A m \in RunIds : m # n => runners'[m] = runners[m]
  BY <1>4 DEF Inv, Types
<1>6. rows[n].kind \in {"generated", "uploaded"} /\ InProgress(n)
  BY DEF Inv, SlotInv, RunnerSettles, InProgress
<1>7. Types' BY <1>3, <1>4, <1>5 DEF Inv, Types
<1>8. SlotInv'
  BY <1>2, <1>3, <1>4, <1>5, <1>6 DEF Inv, Types, SlotInv, InProgress, Working, K6Kinds
<1>9. BytesInv' BY <1>3, BytesFrame DEF Inv
<1>10. CancelInv' BY <1>3, <1>6 DEF Inv, SlotInv, CancelInv, CancelHonored, K6Kinds
<1>11. ScriptsInv'
  BY <1>2, <1>3, <1>4, <1>5, CollectionAssumption DEF Inv, Types, ScriptsInv, ConfirmedCollection
<1> QED BY <1>7, <1>8, <1>9, <1>10, <1>11 DEF Inv

LEMMA MovesKeeps ==
  ASSUME Inv, NEW n \in RunIds, RunnerMoves(n), UNCHANGED <<coll, agreed, k6Vars, lab>>
  PROVE  Inv'
<1> USE DEF k6Vars
<1>1. PICK r \in Runner : /\ runners' = [runners EXCEPT ![n] = r]
                          /\ r.phase # "none" /\ WellFormed(r)
                          /\ r.collection = runners[n].collection /\ r.scripts = runners[n].scripts
  BY DEF RunnerMoves
<1>2. /\ runners' \in [RunIds -> Runner] /\ runners'[n] = r
      /\ \A m \in RunIds : m # n => runners'[m] = runners[m]
      /\ rows' = rows /\ runners[n].phase # "none"
  BY <1>1 DEF Inv, Types, RunnerMoves
<1>3. Types' BY <1>1, <1>2 DEF Inv, Types
<1>4. SlotInv' BY <1>1, <1>2 DEF Inv, SlotInv, InProgress, Working
<1>5. BytesInv' BY <1>2, BytesFrame DEF Inv
<1>6. CancelInv' BY <1>2 DEF Inv, CancelInv, CancelHonored
<1>7. ScriptsInv' BY <1>1, <1>2 DEF Inv, ScriptsInv, ConfirmedCollection
<1> QED BY <1>3, <1>4, <1>5, <1>6, <1>7 DEF Inv

LEMMA VanishesKeeps ==
  ASSUME Inv, NEW n \in RunIds, RunnerVanishes(n), UNCHANGED <<coll, agreed, k6Vars, lab>>
  PROVE  Inv'
<1> USE DEF k6Vars
<1>1. /\ runners' = [runners EXCEPT ![n] = Finished] /\ rows' = rows /\ rows[n].status = "deleted"
      /\ Finished \in Runner /\ WellFormed(Finished)
      /\ Finished.phase = "none" /\ Finished.collection = 0
  BY CollectionAssumption DEF RunnerVanishes, end, Finished, Runner, WellFormed
<1>2. /\ runners' \in [RunIds -> Runner] /\ runners'[n] = Finished
      /\ \A m \in RunIds : m # n => runners'[m] = runners[m]
  BY <1>1 DEF Inv, Types
<1>3. Types' BY <1>1, <1>2 DEF Inv, Types
<1>4. SlotInv' BY <1>1, <1>2 DEF Inv, SlotInv, InProgress, Working
<1>5. BytesInv' BY <1>1, BytesFrame DEF Inv
<1>6. CancelInv' BY <1>1 DEF Inv, CancelInv, CancelHonored
<1>7. ScriptsInv'
  BY <1>1, <1>2, CollectionAssumption DEF Inv, Types, ScriptsInv, ConfirmedCollection
<1> QED BY <1>3, <1>4, <1>5, <1>6, <1>7 DEF Inv

LEMMA BeginsKeeps ==
  ASSUME Inv, NEW n \in RunIds, NEW kind \in {"generated", "uploaded"}, RunBegins(n, kind),
         UNCHANGED <<coll, agreed>> \/ Confirms, UNCHANGED <<k6Vars, lab>>
  PROVE  Inv'
<1> USE DEF k6Vars
<1>1. PICK r \in Runner : /\ runners' = [runners EXCEPT ![n] = r]
                          /\ r.phase = "loop" /\ r.collection \in {0, coll.id}
                          /\ r.collection # 0 => r.scripts = coll.scripts /\ r.scripts \in agreed'
  BY DEF RunBegins
<1>2. /\ runners' \in [RunIds -> Runner] /\ runners'[n] = r /\ WellFormed(r)
      /\ \A m \in RunIds : m # n => runners'[m] = runners[m]
  BY <1>1 DEF Inv, Types, WellFormed
<1>3. /\ rows' \in [RunIds -> Row]
      /\ \A m \in RunIds : m # n => rows'[m] = rows[m]
      /\ rows'[n].kind = kind /\ rows'[n].status = "in-progress" /\ rows'[n].reason = "none"
  BY CreateRow DEF Inv, Types, RunBegins, Kinds
<1>4. rows[n].status = "absent" /\ \A m \in RunIds : ~InProgress(m)
  BY DEF RunBegins, NextRun, findExecutionInProgress
<1>5. /\ coll'.id = coll.id /\ coll'.uploads = coll.uploads /\ coll'.scripts = coll.scripts
      /\ coll'.confirmed \in {coll.confirmed, coll.scripts} /\ agreed \subseteq agreed'
      /\ coll'.confirmed \in agreed' \cup {"none"}
      /\ coll' \in [id : 0..MaxUploads, uploads : 0..MaxUploads,
                    scripts : Scripts \cup {"none"}, confirmed : Scripts \cup {"none"}]
  BY DEF Inv, Types, ScriptsInv, Confirms
<1>6. Types' BY <1>2, <1>3, <1>5 DEF Inv, Types
<1>7. SlotInv'
  <2> USE DEF Inv, Types, SlotInv, InProgress
  <2>1. \A m \in RunIds : InProgress(m)' => m = n BY <1>3, <1>4
  <2>2. Working(n)' BY <1>1, <1>2 DEF Working
  <2>3. n \notin lab /\ proc[n].phase \notin {"starting", "live"} BY <1>4
  <2>4. \A m \in RunIds : runners'[m].phase # "none" =>
          rows'[m].kind \in {"generated", "uploaded"} /\ rows'[m].status \in {"in-progress", "deleted"}
    BY <1>2, <1>3
  <2>5. \A m \in RunIds : proc[m].phase \in {"starting", "live"} =>
          rows'[m].kind \in K6Kinds /\ rows'[m].status = "in-progress"
    BY <1>3, <2>3
  <2>6. \A m \in lab : rows'[m].kind = "security" /\ rows'[m].status = "in-progress"
    BY <1>3, <2>3
  <2> QED BY <2>1, <2>2, <2>4, <2>5, <2>6
<1>8. BytesInv' BY <1>3, BytesFrame DEF Inv
<1>9. CancelInv'
  <2>1. \A m \in RunIds : proc[m].phase \in {"starting", "live"} => m # n
    BY <1>4 DEF Inv, SlotInv, InProgress
  <2> QED BY <1>3, <2>1 DEF Inv, CancelInv, CancelHonored, K6Kinds
<1>10. ScriptsInv'
  <2>1. \A m \in RunIds : runners'[m].collection <= coll'.uploads
    BY <1>1, <1>2, <1>5, CollectionAssumption DEF Inv, Types, ScriptsInv
  <2>2. ConfirmedCollection'
    BY <1>1, <1>2, <1>3, <1>5 DEF Inv, ScriptsInv, ConfirmedCollection
  <2> QED BY <1>5, <2>1, <2>2 DEF Inv, ScriptsInv
<1> QED BY <1>6, <1>7, <1>8, <1>9, <1>10 DEF Inv

LEMMA CancelKeeps ==
  ASSUME Inv, NEW n \in RunIds, CancelCollectionRun(n), UNCHANGED <<k6Vars, lab>>
  PROVE  Inv'
<1> USE DEF k6Vars, collectionVars
<1>1. /\ rows' \in [RunIds -> Row]
      /\ \A m \in RunIds : m # n => rows'[m] = rows[m]
      /\ rows'[n].kind = rows[n].kind /\ rows'[n].status = rows[n].status
  BY CancelRow DEF Inv, Types, CancelCollectionRun
<1>2. UNCHANGED <<runners, coll, agreed>> /\ rows[n].kind \in {"generated", "uploaded"}
  BY DEF CancelCollectionRun
<1>3. Types' BY <1>1, <1>2 DEF Inv, Types
<1>4. SlotInv'
  <2>1. \A m \in RunIds : rows'[m].kind = rows[m].kind /\ rows'[m].status = rows[m].status
    BY <1>1
  <2> QED BY <1>2, <2>1, SlotFrame DEF Inv, Types
<1>5. BytesInv' BY <1>1, BytesFrame DEF Inv
<1>6. CancelInv' BY <1>1, <1>2 DEF Inv, SlotInv, CancelInv, CancelHonored, K6Kinds
<1>7. ScriptsInv' BY <1>1, <1>2 DEF Inv, ScriptsInv, ConfirmedCollection
<1> QED BY <1>3, <1>4, <1>5, <1>6, <1>7 DEF Inv

LEMMA CollectionEditKeeps ==
  ASSUME Inv, UNCHANGED <<rows, runners, k6Vars, lab>>,
         \/ Confirms
         \/ \E scripts \in Scripts : UploadCollection(scripts) \/ EditCollection(scripts)
         \/ RemoveCollection
  PROVE  Inv'
<1> USE DEF k6Vars
<1> DEFINE CollType == [id : 0..MaxUploads, uploads : 0..MaxUploads,
                        scripts : Scripts \cup {"none"}, confirmed : Scripts \cup {"none"}]
           Moved == /\ coll' \in CollType
                    /\ coll'.id <= coll'.uploads /\ coll.uploads <= coll'.uploads
                    /\ agreed \subseteq agreed' /\ coll'.confirmed \in agreed' \cup {"none"}
                    /\ \/ coll'.id = coll.id /\ coll'.scripts = coll.scripts
                       \/ coll'.id = 0
                       \/ coll'.id = coll.uploads + 1
                       \/ coll'.id = coll.id /\ assertCollectionNotRunning
<1>1. Moved
  <2> USE CollectionAssumption DEF Inv, Types, ScriptsInv
  <2>1. CASE Confirms
    <3>1. coll' = [coll EXCEPT !.confirmed = coll.scripts] /\ coll \in CollType BY <2>1 DEF Confirms
    <3>2. /\ coll' \in CollType /\ coll'.id = coll.id /\ coll'.scripts = coll.scripts
          /\ coll'.uploads = coll.uploads /\ coll'.confirmed = coll.scripts
      BY <3>1
    <3> QED BY <2>1, <3>2 DEF Confirms
  <2>2. ASSUME NEW scripts \in Scripts, UploadCollection(scripts) PROVE Moved
    BY <2>2 DEF UploadCollection
  <2>3. ASSUME NEW scripts \in Scripts, EditCollection(scripts) PROVE Moved
    <3>1. coll' = [coll EXCEPT !.scripts = scripts] /\ coll \in CollType /\ agreed' = agreed
      BY <2>3 DEF EditCollection
    <3>2. /\ coll' \in CollType /\ coll'.id = coll.id /\ coll'.uploads = coll.uploads
          /\ coll'.confirmed = coll.confirmed
      BY <3>1
    <3> QED BY <2>3, <3>1, <3>2 DEF EditCollection
  <2>4. CASE RemoveCollection BY <2>4 DEF RemoveCollection, NoCollection
  <2> HIDE DEF Moved
  <2> QED BY <2>1, <2>2, <2>3, <2>4
<1>2. Types' BY <1>1 DEF Inv, Types
<1>3. SlotInv' BY DEF Inv, SlotInv, InProgress, Working
<1>4. BytesInv' BY BytesFrame DEF Inv
<1>5. CancelInv' BY DEF Inv, CancelInv, CancelHonored
<1>6. ScriptsInv'
  <2>1. \A n \in RunIds : runners[n].collection <= coll.uploads /\ runners[n].collection \in Nat
    BY CollectionAssumption DEF Inv, Types, ScriptsInv, Runner
  <2>2. coll.uploads \in Nat /\ coll'.uploads \in Nat BY <1>1, CollectionAssumption DEF Inv, Types
  <2>3. \A n \in RunIds : runners'[n].collection <= coll'.uploads BY <1>1, <2>1, <2>2
  <2>4. ConfirmedCollection'
    BY <1>1, <2>1, <2>2 DEF Inv, ScriptsInv, ConfirmedCollection, assertCollectionNotRunning,
                            InProgress
  <2> QED BY <1>1, <2>3, <2>4 DEF ScriptsInv
<1> QED BY <1>2, <1>3, <1>4, <1>5, <1>6 DEF Inv

LEMMA CollectionKeeps ==
  ASSUME Inv, CollectionNext, UNCHANGED <<k6Vars, lab>> PROVE Inv'
<1>1. (\E scripts \in Scripts : UploadCollection(scripts) \/ EditCollection(scripts))
        \/ RemoveCollection => UNCHANGED <<rows, runners>>
  BY DEF UploadCollection, EditCollection, RemoveCollection
<1> QED BY <1>1, CollectionMoves, SettlesKeeps, MovesKeeps, VanishesKeeps, BeginsKeeps, CancelKeeps,
           CollectionEditKeeps DEF Inv

(* ------------------------- load runs keep it all ----------------------- *)

ProcRecord == [phase : {"none", "starting", "live", "orphan"}, text : Text,
               cancelled : BOOLEAN, unreadable : BOOLEAN]

LEMMA ScriptsFrame ==
  ASSUME Inv, UNCHANGED <<runners, coll, agreed>>,
         \A n \in RunIds : rows'[n].status = "in-progress" =>
           rows[n].status = "in-progress" \/ runners[n].phase = "none"
  PROVE  ScriptsInv'
BY DEF Inv, Types, WellFormed, ScriptsInv, ConfirmedCollection

\* Only documents and start handlers change.
LEMMA DocumentsKeep ==
  ASSUME Inv, NEW k \in K6Kinds, UNCHANGED <<collectionVars, lab>>,
         \/ \E text \in Texts(k) : SaveDocument(k, text)
         \/ MakeReady(k) \/ DeleteDocument(k) \/ StartReads(k) \/ StartRefused(k)
  PROVE  Inv'
<1> USE DEF collectionVars
<1>1. UNCHANGED <<rows, proc, runners, coll, agreed>>
  BY DEF SaveDocument, MakeReady, DeleteDocument, StartReads, StartRefused
<1> DEFINE DocTypes == /\ doc' \in [K6Kinds -> [content : Text, ready : Text]]
                       /\ pending' \in [K6Kinds -> Text]
<1>2. DocTypes
  <2> USE DEF Inv, Types, Text
  <2>1. ASSUME NEW text \in Texts(k), SaveDocument(k, text) PROVE DocTypes
    BY <2>1 DEF SaveDocument, Texts
  <2>2. CASE MakeReady(k) BY <2>2 DEF MakeReady
  <2>3. CASE DeleteDocument(k) BY <2>3 DEF DeleteDocument, NoDoc
  <2>4. CASE StartReads(k) BY <2>4 DEF StartReads
  <2>5. CASE StartRefused(k) BY <2>5 DEF StartRefused
  <2> QED BY <2>1, <2>2, <2>3, <2>4, <2>5
<1>3. Types' BY <1>1, <1>2 DEF Inv, Types
<1>4. SlotInv' BY <1>1, SlotFrame DEF Inv, Types
<1>5. CancelInv' BY <1>1 DEF Inv, CancelInv, CancelHonored
<1>6. ScriptsInv' BY <1>1, ScriptsFrame
<1>7. BytesInv'
  <2> USE DEF Inv, Types, BytesInv, ConfirmedBytes
  <2>1. ASSUME NEW text \in Texts(k), SaveDocument(k, text) PROVE BytesInv'
    <3>1. "user-script" \in K6Kinds => doc'["user-script"].ready \in {doc["user-script"].ready, "none"}
      BY <2>1 DEF SaveDocument
    <3> QED BY <1>1, <2>1, <3>1 DEF SaveDocument
  <2>2. CASE MakeReady(k)
    <3>1. "user-script" \in K6Kinds => doc'["user-script"].ready \in confirmed' \cup {"none"}
      <4>1. CASE k = "user-script" BY <2>2, <4>1 DEF MakeReady
      <4>2. CASE k # "user-script" BY <2>2, <4>2 DEF MakeReady
      <4> QED BY <4>1, <4>2
    <3>2. confirmed \subseteq confirmed' /\ pending' = pending BY <2>2 DEF MakeReady
    <3> QED BY <1>1, <3>1, <3>2
  <2>3. CASE DeleteDocument(k)
    <3>1. "user-script" \in K6Kinds => doc'["user-script"].ready \in {doc["user-script"].ready, "none"}
      BY <2>3 DEF DeleteDocument, NoDoc
    <3> QED BY <1>1, <2>3, <3>1 DEF DeleteDocument
  <2>4. CASE StartReads(k) BY <1>1, <2>4 DEF StartReads
  <2>5. CASE StartRefused(k) BY <1>1, <2>5 DEF StartRefused
  <2> QED BY <2>1, <2>2, <2>3, <2>4, <2>5
<1> QED BY <1>3, <1>4, <1>5, <1>6, <1>7 DEF Inv

LEMMA ResumesKeeps ==
  ASSUME Inv, NEW k \in K6Kinds, NEW n \in RunIds, StartResumes(k, n),
         UNCHANGED <<collectionVars, lab>>
  PROVE  Inv'
<1> USE DEF collectionVars
<1> DEFINE p == [NoProc EXCEPT !.phase = "starting", !.text = pending[k]]
<1>1. p \in ProcRecord /\ p.phase = "starting" /\ p.text = pending[k] /\ ~p.cancelled
  BY DEF NoProc, ProcRecord, Text, Inv, Types
<1>2. proc' = [proc EXCEPT ![n] = p] /\ UNCHANGED <<doc, confirmed>>
      /\ pending' = [pending EXCEPT ![k] = "none"]
  BY DEF StartResumes
<1> HIDE DEF p
<1>3. /\ proc' \in [RunIds -> ProcRecord] /\ proc'[n] = p
      /\ \A m \in RunIds : m # n => proc'[m] = proc[m]
  BY <1>1, <1>2 DEF Inv, Types, ProcRecord
<1>4. /\ rows' \in [RunIds -> Row]
      /\ \A m \in RunIds : m # n => rows'[m] = rows[m]
      /\ rows'[n].kind = k /\ ~rows'[n].cancel
      /\ rows'[n].status = "in-progress" /\ rows'[n].reason = "none"
  BY CreateRow DEF StartResumes, Inv, Types, K6Kinds, Kinds
<1>5. rows[n].status = "absent" /\ \A m \in RunIds : ~InProgress(m)
  BY DEF StartResumes, NextRun, findExecutionInProgress
<1>6. runners[n].phase = "none" /\ n \notin lab BY <1>5 DEF Inv, SlotInv, InProgress
<1>7. Types'
  BY <1>2, <1>3, <1>4 DEF Inv, Types, ProcRecord, Text
<1>8. SlotInv'
  <2> USE DEF Inv, Types, SlotInv, InProgress
  <2>1. \A m \in RunIds : InProgress(m)' => m = n BY <1>4, <1>5
  <2>2. Working(n)' BY <1>1, <1>3 DEF Working
  <2>3. \A m \in RunIds : runners[m].phase # "none" =>
          rows'[m].kind \in {"generated", "uploaded"} /\ rows'[m].status \in {"in-progress", "deleted"}
    BY <1>4, <1>6
  <2>4. \A m \in RunIds : proc'[m].phase \in {"starting", "live"} =>
          rows'[m].kind \in K6Kinds /\ rows'[m].status = "in-progress"
    BY <1>3, <1>4
  <2>5. \A m \in lab : rows'[m].kind = "security" /\ rows'[m].status = "in-progress"
    BY <1>4, <1>6
  <2> QED BY <2>1, <2>2, <2>3, <2>4, <2>5
<1>9. BytesInv'
  <2>1. k = "user-script" => p.text \in confirmed
    BY <1>1 DEF Inv, BytesInv, StartResumes
  <2>2. ConfirmedBytes' BY <1>2, <1>3, <1>4, <2>1 DEF Inv, BytesInv, ConfirmedBytes
  <2>3. "user-script" \in K6Kinds => pending'["user-script"] \in {pending["user-script"], "none"}
    BY <1>2 DEF Inv, Types
  <2> QED BY <1>2, <2>2, <2>3 DEF Inv, BytesInv
<1>10. CancelInv'
  BY <1>1, <1>3, <1>4 DEF Inv, CancelInv, CancelHonored
<1>11. ScriptsInv' BY <1>4, <1>6, ScriptsFrame
<1> QED BY <1>7, <1>8, <1>9, <1>10, <1>11 DEF Inv

LEMMA NoProcTyped == /\ NoProc \in ProcRecord /\ NoProc.phase = "none"
BY DEF NoProc, ProcRecord, Text

\* A child is gone, and its row settled accordingly.
LEMMA ChildGoneKeeps ==
  ASSUME Inv, NEW n \in RunIds, proc[n].phase \in {"starting", "live"},
         NEW status \in {"completed", "cancelled", "failed"},
         NEW reason \in {"none", "user-requested"}, settleRun(n, status, reason),
         status = "cancelled" => rows[n].cancel,
         rows[n].cancel => status # "completed",
         proc' = [proc EXCEPT ![n] = NoProc], UNCHANGED <<doc, pending, confirmed>>,
         UNCHANGED <<collectionVars, lab>>
  PROVE  Inv'
<1> USE DEF collectionVars
<1>1. /\ proc' \in [RunIds -> ProcRecord] /\ proc'[n] = NoProc
      /\ \A m \in RunIds : m # n => proc'[m] = proc[m]
  BY NoProcTyped DEF Inv, Types, ProcRecord
<1>2. /\ rows' \in [RunIds -> Row]
      /\ \A m \in RunIds : m # n => rows'[m] = rows[m]
      /\ rows'[n].kind = rows[n].kind /\ rows'[n].cancel = rows[n].cancel
      /\ rows'[n].status = status /\ rows'[n].reason = reason
  BY SettleRow DEF Inv, Types
<1>3. InProgress(n) /\ rows[n].kind \in K6Kinds /\ runners[n].phase = "none" /\ n \notin lab
  BY DEF Inv, SlotInv, K6Kinds
<1>4. Types' BY <1>1, <1>2 DEF Inv, Types, ProcRecord
<1>5. SlotInv'
  <2> USE DEF Inv, Types, SlotInv, InProgress
  <2>1. \A m \in RunIds : ~InProgress(m)' BY <1>2, <1>3
  <2>2. \A m \in RunIds : runners[m].phase # "none" =>
          rows'[m].kind \in {"generated", "uploaded"} /\ rows'[m].status \in {"in-progress", "deleted"}
    BY <1>2, <1>3
  <2>3. \A m \in RunIds : proc'[m].phase \in {"starting", "live"} =>
          rows'[m].kind \in K6Kinds /\ rows'[m].status = "in-progress"
    BY <1>1, <1>2, NoProcTyped
  <2>4. \A m \in lab : rows'[m].kind = "security" /\ rows'[m].status = "in-progress"
    BY <1>2, <1>3
  <2> QED BY <2>1, <2>2, <2>3, <2>4
<1>6. BytesInv' BY <1>1, <1>2, NoProcTyped DEF Inv, BytesInv, ConfirmedBytes
<1>7. CancelInv' BY <1>1, <1>2, NoProcTyped DEF Inv, CancelInv, CancelHonored
<1>8. ScriptsInv' BY <1>2, <1>3, ScriptsFrame DEF InProgress
<1> QED BY <1>4, <1>5, <1>6, <1>7, <1>8 DEF Inv

LEMMA ExitsKeeps ==
  ASSUME Inv, NEW n \in RunIds, ChildExits(n), UNCHANGED <<collectionVars, lab>>
  PROVE  Inv'
<1>1. PICK code \in ExitCodes, measured \in BOOLEAN, lastLines \in BOOLEAN :
        LET how == settlementOf(n, proc[n].unreadable \/ lastLines, code, measured)
        IN settleRun(n, how[1], how[2])
  BY DEF ChildExits
<1> DEFINE how == settlementOf(n, proc[n].unreadable \/ lastLines, code, measured)
<1>2. /\ rows[n].cancel => proc[n].cancelled
      /\ proc[n].cancelled => rows[n].cancel \/ proc[n].unreadable
  BY DEF Inv, CancelInv, ChildExits
<1>3. /\ how[1] \in {"completed", "cancelled", "failed"} /\ how[2] \in {"none", "user-requested"}
      /\ how[1] = "cancelled" => rows[n].cancel
      /\ rows[n].cancel => how[1] # "completed"
  BY <1>2 DEF settlementOf, settledStatusOf
<1>4. settleRun(n, how[1], how[2]) BY <1>1
<1> HIDE DEF how
<1> QED BY <1>3, <1>4, ChildGoneKeeps DEF ChildExits

\* A child changes, its row keeps its kind and status.
LEMMA ChildMovesKeeps ==
  ASSUME Inv, NEW n \in RunIds, NEW p \in ProcRecord, proc' = [proc EXCEPT ![n] = p],
         rows' \in [RunIds -> Row], \A m \in RunIds : m # n => rows'[m] = rows[m],
         rows'[n].kind = rows[n].kind, rows'[n].status = rows[n].status,
         rows'[n].reason = rows[n].reason,
         p.phase \in {"starting", "live"} <=> proc[n].phase \in {"starting", "live"},
         p.phase # "none" => proc[n].phase # "none", p.text = proc[n].text \/ p.phase = "none",
         rows'[n].cancel => rows[n].cancel \/ (InProgress(n) /\ p.cancelled),
         rows[n].cancel => rows'[n].cancel,
         p.phase \in {"starting", "live"} =>
           /\ rows'[n].cancel => p.cancelled
           /\ p.cancelled => rows'[n].cancel \/ p.unreadable,
         UNCHANGED <<doc, pending, confirmed>>, UNCHANGED <<collectionVars, lab>>
  PROVE  Inv'
<1> USE DEF collectionVars
<1>1. /\ proc' \in [RunIds -> ProcRecord] /\ proc'[n] = p
      /\ \A m \in RunIds : m # n => proc'[m] = proc[m]
  BY DEF Inv, Types, ProcRecord
<1>2. \A m \in RunIds : rows'[m].kind = rows[m].kind /\ rows'[m].status = rows[m].status
  OBVIOUS
<1>3. Types' BY <1>1 DEF Inv, Types, ProcRecord
<1>4. SlotInv'
  <2> USE DEF Inv, Types, SlotInv, InProgress
  <2>1. \A m \in RunIds : proc'[m].phase \in {"starting", "live"} <=>
                            proc[m].phase \in {"starting", "live"}
    BY <1>1
  <2>2. \A m \in RunIds : InProgress(m)' => Working(m)' BY <1>2, <2>1 DEF Working
  <2>3. \A m \in lab : rows'[m].kind = "security" /\ rows'[m].status = "in-progress" BY <1>2
  <2>4. \A m \in RunIds : proc'[m].phase \in {"starting", "live"} =>
          rows'[m].kind \in K6Kinds /\ rows'[m].status = "in-progress"
    BY <1>2, <2>1
  <2>5. \A m \in RunIds : runners[m].phase # "none" =>
          rows'[m].kind \in {"generated", "uploaded"} /\ rows'[m].status \in {"in-progress", "deleted"}
    BY <1>2
  <2>6. \A m, l \in RunIds : InProgress(m)' /\ InProgress(l)' => m = l BY <1>2
  <2> QED BY <2>2, <2>3, <2>4, <2>5, <2>6
<1>5. BytesInv' BY <1>1, <1>2 DEF Inv, BytesInv, ConfirmedBytes
<1>6. CancelInv'
  <2>1. \A m \in RunIds : proc'[m].phase \in {"starting", "live"} =>
          /\ rows'[m].cancel => proc'[m].cancelled
          /\ proc'[m].cancelled => rows'[m].cancel \/ proc'[m].unreadable
    <3> SUFFICES ASSUME NEW m \in RunIds, proc'[m].phase \in {"starting", "live"}
                 PROVE  /\ rows'[m].cancel => proc'[m].cancelled
                        /\ proc'[m].cancelled => rows'[m].cancel \/ proc'[m].unreadable
      OBVIOUS
    <3>1. CASE m = n BY <1>1, <3>1
    <3>2. CASE m # n BY <1>1, <3>2 DEF Inv, CancelInv
    <3> QED BY <3>1, <3>2
  <2>2. CancelHonored' BY <1>2 DEF Inv, CancelInv, CancelHonored, InProgress
  <2> QED BY <2>1, <2>2 DEF CancelInv
<1>7. ScriptsInv' BY <1>2, ScriptsFrame
<1> QED BY <1>3, <1>4, <1>5, <1>6, <1>7 DEF Inv

LEMMA K6Keeps ==
  ASSUME Inv, K6Next, UNCHANGED <<collectionVars, lab>> PROVE Inv'
<1>1. ASSUME NEW n \in RunIds, RunFailsToStart(n) \/ SpawnFails(n) PROVE Inv'
  BY <1>1, ChildGoneKeeps DEF RunFailsToStart, SpawnFails
<1>2. ASSUME NEW n \in RunIds, K6Spawns(n) PROVE Inv'
  <2> DEFINE p == [proc[n] EXCEPT !.phase = "live"]
  <2>1. /\ p \in ProcRecord /\ p.phase = "live" /\ p.text = proc[n].text
        /\ p.cancelled = proc[n].cancelled /\ p.unreadable = proc[n].unreadable
    BY DEF Inv, Types, ProcRecord
  <2>2. proc' = [proc EXCEPT ![n] = p] /\ rows' = rows /\ proc[n].phase = "starting"
        /\ rows \in [RunIds -> Row]
    BY <1>2 DEF K6Spawns, Inv, Types
  <2>3. /\ rows[n].cancel => proc[n].cancelled
        /\ proc[n].cancelled => rows[n].cancel \/ proc[n].unreadable
    BY <2>2 DEF Inv, CancelInv
  <2> HIDE DEF p
  <2> QED BY <1>2, <2>1, <2>2, <2>3, ChildMovesKeeps DEF K6Spawns
<1>3. ASSUME NEW n \in RunIds, CancelK6Run(n) PROVE Inv'
  <2> DEFINE p == [proc[n] EXCEPT !.cancelled = TRUE]
  <2>1. /\ p \in ProcRecord /\ p.phase = proc[n].phase /\ p.text = proc[n].text /\ p.cancelled
    BY DEF Inv, Types, ProcRecord
  <2>2. proc' = [proc EXCEPT ![n] = p] /\ InProgress(n) /\ UNCHANGED <<doc, pending, confirmed>>
    BY <1>3 DEF CancelK6Run
  <2>3. /\ rows' \in [RunIds -> Row]
        /\ \A m \in RunIds : m # n => rows'[m] = rows[m]
        /\ rows'[n].kind = rows[n].kind /\ rows'[n].cancel
        /\ rows'[n].status = rows[n].status /\ rows'[n].reason = rows[n].reason
    BY <1>3, CancelRow DEF CancelK6Run, Inv, Types
  <2> HIDE DEF p
  <2> QED BY <2>1, <2>2, <2>3, ChildMovesKeeps
<1>4. ASSUME NEW n \in RunIds, MetricsUnreadable(n) PROVE Inv'
  <2> DEFINE p == [proc[n] EXCEPT !.unreadable = TRUE, !.cancelled = TRUE]
  <2>1. /\ p \in ProcRecord /\ p.phase = proc[n].phase /\ p.text = proc[n].text /\ p.cancelled
        /\ p.unreadable
    BY DEF Inv, Types, ProcRecord
  <2>2. proc' = [proc EXCEPT ![n].unreadable = TRUE, ![n].cancelled = TRUE]
        /\ proc \in [RunIds -> ProcRecord]
    BY <1>4 DEF MetricsUnreadable, Inv, Types, ProcRecord
  <2>3. proc' = [proc EXCEPT ![n] = p] BY <2>2 DEF ProcRecord
  <2>4. rows' = rows /\ rows \in [RunIds -> Row] /\ UNCHANGED <<doc, pending, confirmed>>
    BY <1>4 DEF MetricsUnreadable, Inv, Types
  <2> HIDE DEF p
  <2> QED BY <2>1, <2>3, <2>4, ChildMovesKeeps
<1>5. ASSUME NEW n \in RunIds, OrphanExits(n) PROVE Inv'
  <2>1. rows' = rows /\ rows \in [RunIds -> Row] BY <1>5 DEF OrphanExits, Inv, Types
  <2> QED BY <1>5, <2>1, NoProcTyped, ChildMovesKeeps DEF OrphanExits
<1> QED BY <1>1, <1>2, <1>3, <1>4, <1>5, ExitsKeeps, ResumesKeeps, DocumentsKeep DEF K6Next, K6Step

(* ------------------ security runs, eviction and restart ---------------- *)

LEMMA SecurityKeeps ==
  ASSUME Inv, NEW n \in RunIds, StartSecurity(n) \/ SecurityRunEnds(n) PROVE Inv'
<1> USE DEF collectionVars, k6Vars
<1>1. UNCHANGED <<runners, coll, agreed, doc, pending, proc, confirmed>>
  BY DEF StartSecurity, SecurityRunEnds
<1>2. CASE StartSecurity(n)
  <2>1. /\ rows' \in [RunIds -> Row]
        /\ \A m \in RunIds : m # n => rows'[m] = rows[m]
        /\ rows'[n].kind = "security" /\ rows'[n].status = "in-progress"
    BY <1>2, CreateRow DEF StartSecurity, Inv, Types, Kinds
  <2>2. rows[n].status = "absent" /\ \A m \in RunIds : ~InProgress(m)
    BY <1>2 DEF StartSecurity, NextRun, findExecutionInProgress
  <2>3. /\ runners[n].phase = "none" /\ proc[n].phase \notin {"starting", "live"}
        /\ lab' = lab \cup {n}
    BY <1>2, <2>2 DEF StartSecurity, Inv, SlotInv, InProgress
  <2>4. Types' BY <1>1, <2>1, <2>3 DEF Inv, Types
  <2>5. SlotInv'
    <3> USE DEF Inv, Types, SlotInv, InProgress
    <3>1. \A m \in RunIds : InProgress(m)' => m = n BY <2>1, <2>2
    <3>2. Working(n)' BY <2>3 DEF Working
    <3>3. \A m \in RunIds : runners'[m].phase # "none" =>
            rows'[m].kind \in {"generated", "uploaded"} /\ rows'[m].status \in {"in-progress", "deleted"}
      BY <1>1, <2>1, <2>3
    <3>4. \A m \in RunIds : proc'[m].phase \in {"starting", "live"} =>
            rows'[m].kind \in K6Kinds /\ rows'[m].status = "in-progress"
      BY <1>1, <2>1, <2>3
    <3>5. \A m \in lab' : rows'[m].kind = "security" /\ rows'[m].status = "in-progress"
      BY <2>1, <2>3
    <3> QED BY <3>1, <3>2, <3>3, <3>4, <3>5
  <2>6. BytesInv' BY <1>1, <2>1, BytesFrame DEF Inv
  <2>7. CancelInv' BY <1>1, <2>1, <2>3 DEF Inv, CancelInv, CancelHonored, K6Kinds
  <2>8. ScriptsInv' BY <1>1, <2>1, <2>3, ScriptsFrame
  <2> QED BY <2>4, <2>5, <2>6, <2>7, <2>8 DEF Inv
<1>3. CASE SecurityRunEnds(n)
  <2>1. PICK how \in {<<"completed", "none">>, <<"failed", "none">>,
                      <<"cancelled", "user-requested">>} : settleRun(n, how[1], how[2])
    BY <1>3 DEF SecurityRunEnds
  <2>2. /\ how[1] \in {"completed", "cancelled", "failed"} /\ how[2] \in {"none", "user-requested"}
        /\ how[1] # "in-progress"
    OBVIOUS
  <2>3. /\ rows' \in [RunIds -> Row]
        /\ \A m \in RunIds : m # n => rows'[m] = rows[m]
        /\ rows'[n].kind = rows[n].kind /\ rows'[n].status = how[1]
    BY <2>1, <2>2, SettleRow DEF Inv, Types
  <2>4. rows[n].kind = "security" /\ InProgress(n) /\ lab' = lab \ {n}
    BY <1>3 DEF SecurityRunEnds, Inv, SlotInv
  <2>5. runners[n].phase = "none" /\ proc[n].phase \notin {"starting", "live"}
    BY <2>4 DEF Inv, SlotInv, K6Kinds
  <2>6. Types' BY <1>1, <2>3, <2>4 DEF Inv, Types
  <2>7. SlotInv'
    <3> USE DEF Inv, Types, SlotInv, InProgress
    <3>1. \A m \in RunIds : ~InProgress(m)' BY <2>2, <2>3, <2>4
    <3>2. \A m \in RunIds : runners'[m].phase # "none" =>
            rows'[m].kind \in {"generated", "uploaded"} /\ rows'[m].status \in {"in-progress", "deleted"}
      BY <1>1, <2>3, <2>5
    <3>3. \A m \in RunIds : proc'[m].phase \in {"starting", "live"} =>
            rows'[m].kind \in K6Kinds /\ rows'[m].status = "in-progress"
      BY <1>1, <2>3, <2>5
    <3>4. \A m \in lab' : rows'[m].kind = "security" /\ rows'[m].status = "in-progress"
      BY <2>3, <2>4
    <3> QED BY <3>1, <3>2, <3>3, <3>4
  <2>8. BytesInv' BY <1>1, <2>3, BytesFrame DEF Inv
  <2>9. CancelInv' BY <1>1, <2>3, <2>4, <2>5 DEF Inv, CancelInv, CancelHonored, K6Kinds
  <2>10. ScriptsInv' BY <1>1, <2>3, <2>5, ScriptsFrame
  <2> QED BY <2>6, <2>7, <2>8, <2>9, <2>10 DEF Inv
<1> QED BY <1>2, <1>3

LEMMA ExpiresKeeps == ASSUME Inv, SessionExpires PROVE Inv'
<1>1. /\ rows' \in [RunIds -> Row]
      /\ \A n \in RunIds :
           \/ rows'[n] = rows[n] /\ (rows[n].kind = "security" \/ rows[n].status = "absent")
           \/ /\ rows'[n].status = "deleted" /\ rows'[n].kind = rows[n].kind /\ ~rows'[n].cancel
              /\ rows[n].kind # "security" /\ rows'[n].reason = "none"
  BY DEF SessionExpires, deleteBySession, Inv, Types, Row, NoRow
<1>2. UNCHANGED <<runners, pending, proc, confirmed, lab, agreed>> BY DEF SessionExpires
<1>3. \A n \in RunIds : proc[n].phase \notin {"starting", "live"}
  BY DEF SessionExpires, Quiet, StartsQuiet, Inv, Types
<1>4. /\ coll' \in [id : 0..MaxUploads, uploads : 0..MaxUploads,
                    scripts : Scripts \cup {"none"}, confirmed : Scripts \cup {"none"}]
      /\ coll'.id = 0 /\ coll'.uploads = coll.uploads /\ coll'.confirmed = "none"
      /\ coll.uploads \in Nat
  BY CollectionAssumption DEF SessionExpires, NoCollection, Inv, Types
<1>5. /\ doc' \in [K6Kinds -> [content : Text, ready : Text]]
      /\ \A k \in K6Kinds : doc'[k].ready = "none"
  BY DEF SessionExpires, NoDoc, Text
<1>6. Types' BY <1>1, <1>2, <1>4, <1>5 DEF Inv, Types
<1>7. SlotInv'
  <2> USE DEF Inv, Types, SlotInv, InProgress
  <2>1. \A n \in RunIds : InProgress(n)' => InProgress(n) /\ rows[n].kind = "security" BY <1>1
  <2>2. \A n \in RunIds : InProgress(n)' => Working(n)'
    BY <1>2, <2>1 DEF Working
  <2>3. \A n \in RunIds : runners[n].phase # "none" =>
          rows'[n].kind \in {"generated", "uploaded"} /\ rows'[n].status \in {"in-progress", "deleted"}
    BY <1>1
  <2>4. \A n \in lab : rows'[n].kind = "security" /\ rows'[n].status = "in-progress" BY <1>1
  <2> QED BY <1>2, <1>3, <2>1, <2>2, <2>3, <2>4
<1>8. BytesInv' BY <1>1, <1>2, <1>5 DEF Inv, BytesInv, ConfirmedBytes
<1>9. CancelInv' BY <1>1, <1>2, <1>3 DEF Inv, CancelInv, CancelHonored, K6Kinds
<1>10. ScriptsInv'
  <2>1. \A n \in RunIds : runners'[n].collection <= coll'.uploads
    BY <1>2, <1>4 DEF Inv, ScriptsInv
  <2>2. ConfirmedCollection' BY <1>1, <1>2, <1>4 DEF Inv, ScriptsInv, ConfirmedCollection
  <2> QED BY <1>4, <2>1, <2>2 DEF ScriptsInv
<1> QED BY <1>6, <1>7, <1>8, <1>9, <1>10 DEF Inv

LEMMA RestartKeeps == ASSUME Inv, Restart PROVE Inv'
<1>1. /\ rows' \in [RunIds -> Row]
      /\ \A n \in RunIds : /\ rows'[n].kind = rows[n].kind /\ rows'[n].cancel = rows[n].cancel
                           /\ rows'[n].status # "in-progress"
                           /\ \/ rows'[n] = rows[n]
                              \/ rows'[n].status = "cancelled" /\ rows'[n].reason = "backend-restart"
  <2> DEFINE row(n) == IF InProgress(n)
             THEN [rows[n] EXCEPT !.status = "cancelled", !.reason = "backend-restart"] ELSE rows[n]
  <2>1. ASSUME NEW n \in RunIds
        PROVE  /\ row(n) \in Row /\ row(n).kind = rows[n].kind /\ row(n).cancel = rows[n].cancel
               /\ row(n).status # "in-progress"
               /\ \/ row(n) = rows[n]
                  \/ row(n).status = "cancelled" /\ row(n).reason = "backend-restart"
    <3>1. rows[n] \in Row BY DEF Inv, Types
    <3>2. CASE InProgress(n) BY <3>1, <3>2 DEF Row
    <3>3. CASE ~InProgress(n) BY <3>1, <3>3 DEF InProgress
    <3> QED BY <3>2, <3>3
  <2>2. rows' = [n \in RunIds |-> row(n)] BY DEF Restart, markInterruptedRunsCancelled
  <2> HIDE DEF row
  <2> QED BY <2>1, <2>2
<1>2. /\ runners' \in [RunIds -> Runner]
      /\ \A n \in RunIds : /\ runners'[n].phase = "none" /\ runners'[n].collection = 0
                           /\ WellFormed(runners'[n])
  <2>1. /\ Finished \in Runner /\ WellFormed(Finished)
        /\ Finished.phase = "none" /\ Finished.collection = 0
    BY CollectionAssumption DEF Finished, Runner, WellFormed
  <2>2. runners' = [n \in RunIds |-> Finished] BY DEF Restart
  <2> QED BY <2>1, <2>2
<1>3. /\ proc' \in [RunIds -> ProcRecord]
      /\ \A n \in RunIds : /\ proc'[n].phase \in {"none", "orphan"}
                           /\ proc'[n].phase = "none" \/ proc'[n].text = proc[n].text
                           /\ proc'[n].phase # "none" => proc[n].phase # "none"
  <2> DEFINE p(n) == IF proc[n].phase \in {"live", "orphan"}
                     THEN [NoProc EXCEPT !.phase = "orphan", !.text = proc[n].text] ELSE NoProc
  <2>1. \A n \in RunIds : /\ p(n) \in ProcRecord /\ p(n).phase \in {"none", "orphan"}
                          /\ p(n).phase = "none" \/ p(n).text = proc[n].text
                          /\ p(n).phase # "none" => proc[n].phase # "none"
    BY DEF NoProc, ProcRecord, Inv, Types, Text
  <2>2. proc' = [n \in RunIds |-> p(n)] BY DEF Restart
  <2> HIDE DEF p
  <2> QED BY <2>1, <2>2
<1>4. /\ doc' \in [K6Kinds -> [content : Text, ready : Text]]
      /\ \A k \in K6Kinds : doc'[k].ready \in {doc[k].ready, "none"}
      /\ pending' \in [K6Kinds -> Text] /\ \A k \in K6Kinds : pending'[k] = "none"
  BY DEF Restart, Inv, Types, Text
<1>5. lab' = {} /\ UNCHANGED <<coll, agreed, confirmed>> BY DEF Restart
<1>6. Types' BY <1>1, <1>2, <1>3, <1>4, <1>5 DEF Inv, Types, ProcRecord
<1>7. SlotInv' BY <1>1, <1>2, <1>3, <1>5 DEF SlotInv, InProgress
<1>8. BytesInv'
  <2>1. ConfirmedBytes' BY <1>1, <1>3, <1>5 DEF Inv, BytesInv, ConfirmedBytes
  <2> QED BY <1>4, <1>5, <2>1 DEF Inv, BytesInv
<1>9. CancelInv' BY <1>1, <1>3 DEF Inv, CancelInv, CancelHonored
<1>10. ScriptsInv'
  <2>1. coll.uploads \in Nat BY CollectionAssumption DEF Inv, Types
  <2> QED BY <1>2, <1>5, <2>1 DEF Inv, ScriptsInv, ConfirmedCollection
<1> QED BY <1>6, <1>7, <1>8, <1>9, <1>10 DEF Inv

LEMMA InitInv == Init => Inv
<1> SUFFICES ASSUME Init PROVE Inv OBVIOUS
<1> USE CollectionAssumption DEF Init, SlotInit, CollectionInit, K6Init
<1>1. Finished \in Runner /\ WellFormed(Finished) /\ Finished.phase = "none" /\ Finished.collection = 0
  BY DEF Finished, Runner, WellFormed
<1>2. NoRow \in Row BY DEF NoRow, Row
<1>3. Types
  <2>1. coll \in [id : 0..MaxUploads, uploads : 0..MaxUploads,
                  scripts : Scripts \cup {"none"}, confirmed : Scripts \cup {"none"}]
    BY DEF NoCollection
  <2>2. proc \in [RunIds -> ProcRecord] BY NoProcTyped
  <2>3. doc \in [K6Kinds -> [content : Text, ready : Text]] /\ pending \in [K6Kinds -> Text]
    BY DEF NoDoc, Text
  <2> QED BY <1>1, <1>2, <2>1, <2>2, <2>3 DEF Types, ProcRecord
<1>4. SlotInv BY <1>1, NoProcTyped DEF SlotInv, InProgress, NoRow
<1>5. BytesInv BY NoProcTyped DEF BytesInv, ConfirmedBytes, NoDoc
<1>6. CancelInv BY NoProcTyped DEF CancelInv, CancelHonored, NoRow
<1>7. ScriptsInv BY <1>1 DEF ScriptsInv, ConfirmedCollection, NoCollection
<1> QED BY <1>3, <1>4, <1>5, <1>6, <1>7 DEF Inv

LEMMA StutterKeeps == ASSUME Inv, UNCHANGED vars PROVE Inv'
<1> USE DEF vars, collectionVars, k6Vars
<1>1. Types' BY DEF Inv, Types
<1>2. SlotInv' BY SlotFrame DEF Inv, Types
<1>3. BytesInv' BY BytesFrame DEF Inv
<1>4. CancelInv' BY DEF Inv, CancelInv, CancelHonored
<1>5. ScriptsInv' BY ScriptsFrame
<1> QED BY <1>1, <1>2, <1>3, <1>4, <1>5 DEF Inv

LEMMA NextInv == Inv /\ [Next]_vars => Inv'
BY CollectionKeeps, K6Keeps, SecurityKeeps, ExpiresKeeps, RestartKeeps, StutterKeeps DEF Next

LEMMA SpecInv == Spec => []Inv
BY InitInv, NextInv, PTL DEF Spec

(* ------------------------------ theorems ------------------------------- *)

\* The slot is taken exactly while something works on the run (findExecutionInProgress, the
\* runners' settlements, markInterruptedRunsCancelled).
THEOREM SlotNeverStuck == Spec => []InProgressHasRunner
<1>1. Inv => InProgressHasRunner
  <2> SUFFICES ASSUME Inv, NEW n \in RunIds, rows[n].status # "deleted"
               PROVE  InProgress(n) <=> Active(n)
    BY DEF InProgressHasRunner
  <2>1. K6Kinds \subseteq {"chain", "user-script"} BY DEF K6Kinds
  <2>2. CASE rows[n].kind \in {"generated", "uploaded"}
    <3>1. Active(n) <=> runners[n].phase # "none" BY <2>1, <2>2 DEF Active
    <3> QED BY <2>1, <2>2, <3>1 DEF Inv, SlotInv, Working, InProgress
  <2>3. CASE rows[n].kind \in K6Kinds
    <3>1. Active(n) <=> proc[n].phase \in {"starting", "live"} BY <2>1, <2>3 DEF Active
    <3> QED BY <2>1, <2>3, <3>1 DEF Inv, SlotInv, Working, InProgress
  <2>4. CASE rows[n].kind = "security"
    <3>1. Active(n) <=> n \in lab BY <2>1, <2>4 DEF Active
    <3> QED BY <2>1, <2>4, <3>1 DEF Inv, SlotInv, Working, InProgress
  <2>5. CASE rows[n].kind \notin {"generated", "uploaded", "security"} \cup K6Kinds
    <3>1. ~Active(n) BY <2>5 DEF Active
    <3> QED BY <2>5, <3>1 DEF Inv, SlotInv, Working, InProgress
  <2> QED BY <2>2, <2>3, <2>4, <2>5
<1> QED BY <1>1, SpecInv, PTL

\* Only confirmed bytes run, although a script may be replaced while its start waits for the probe
\* (startUserScriptRun, confirmUserScript).
THEOREM OnlyConfirmedBytes == Spec => []ConfirmedBytes
<1>1. Inv => ConfirmedBytes BY DEF Inv, BytesInv
<1> QED BY <1>1, SpecInv, PTL

\* Only agreed scripts run, and they stay the collection's (gate 1 of execution/start, runLock).
THEOREM OnlyConfirmedScripts == Spec => []ConfirmedCollection
<1>1. Inv => ConfirmedCollection BY DEF Inv, ScriptsInv
<1> QED BY <1>1, SpecInv, PTL

\* A cancelled load run never ends completed, and none is cancelled unasked (settlement of a k6
\* run in startPerformanceRun and runUserScript).
THEOREM CancelsHonored == Spec => []CancelHonored
<1>1. Inv => CancelHonored BY DEF Inv, CancelInv
<1> QED BY <1>1, SpecInv, PTL

(* ----------------------------- refinement ------------------------------ *)

Statuses == [n \in RunIds |-> rows[n].status]

LEMMA LedgerStarts ==
  ASSUME Inv, NEW n \in RunIds, NEW kind \in Kinds, NextRun(n), findExecutionInProgress = {},
         createRun(n, kind)
  PROVE  Ledger!Next
<1>1. /\ \A m \in RunIds : m # n => rows'[m] = rows[m]
      /\ rows'[n].status = "in-progress"
  BY CreateRow DEF Inv, Types
<1>2. Statuses' = [Statuses EXCEPT ![n] = "in-progress"] BY <1>1 DEF Statuses
<1>3. /\ \A m \in RunIds : Statuses[m] # "in-progress"
      /\ Statuses[n] = "absent"
  BY DEF Statuses, NextRun, findExecutionInProgress, InProgress
<1>4. Ledger!Start(n) BY <1>2, <1>3 DEF Ledger!Start, Statuses
<1> QED BY <1>4 DEF Ledger!Next

LEMMA LedgerEnds ==
  ASSUME Inv, NEW n \in RunIds, InProgress(n), NEW how \in {"completed", "cancelled", "failed"},
         rows'[n].status = how, \A m \in RunIds : m # n => rows'[m].status = rows[m].status
  PROVE  Ledger!Next
<1>1. Statuses' = [Statuses EXCEPT ![n] = how] BY DEF Statuses
<1>2. Statuses[n] = "in-progress" BY DEF Statuses, InProgress
<1>3. Ledger!End(n, how) BY <1>1, <1>2 DEF Ledger!End, Statuses
<1> QED BY <1>3 DEF Ledger!Next, Ledger!Ended

LEMMA LedgerSettles ==
  ASSUME Inv, NEW n \in RunIds, InProgress(n), NEW status \in {"completed", "cancelled", "failed"},
         NEW reason \in {"none", "user-requested"}, settleRun(n, status, reason)
  PROVE  Ledger!Next
<1>1. /\ \A m \in RunIds : m # n => rows'[m] = rows[m]
      /\ rows'[n].status = status
  BY SettleRow DEF Inv, Types
<1> QED BY <1>1, LedgerEnds

\* A step of the session's runs is a step of the ledger, or leaves every status as it is.
LEMMA LedgerStep == ASSUME Inv, [Next]_vars PROVE Ledger!Next \/ Statuses' = Statuses
<1>0. ASSUME UNCHANGED rows PROVE Statuses' = Statuses BY <1>0 DEF Statuses
<1>1. CASE CollectionNext
  <2>1. ASSUME NEW n \in RunIds, RunnerSettles(n) PROVE Ledger!Next
    <3>1. InProgress(n) BY <2>1 DEF RunnerSettles, Inv, SlotInv, InProgress
    <3>2. PICK how \in {<<"completed", "none">>, <<"cancelled", "user-requested">>} :
            settleRun(n, how[1], how[2])
      BY <2>1 DEF RunnerSettles
    <3> QED BY <3>1, <3>2, LedgerSettles
  <2>2. ASSUME NEW n \in RunIds, NEW kind \in {"generated", "uploaded"}, RunBegins(n, kind)
        PROVE  Ledger!Next
    BY <2>2, LedgerStarts DEF RunBegins, Kinds
  <2>3. ASSUME NEW n \in RunIds, CancelCollectionRun(n) PROVE Statuses' = Statuses
    BY <2>3, CancelRow DEF CancelCollectionRun, Inv, Types, Statuses
  <2>4. ASSUME NEW n \in RunIds, RunnerMoves(n) \/ RunnerVanishes(n) PROVE UNCHANGED rows
    BY <2>4 DEF RunnerMoves, RunnerVanishes
  <2>5. ASSUME (\E scripts \in Scripts : UploadCollection(scripts) \/ EditCollection(scripts))
               \/ RemoveCollection
        PROVE  UNCHANGED rows
    BY <2>5 DEF UploadCollection, EditCollection, RemoveCollection
  <2> QED BY <1>0, <1>1, <2>1, <2>2, <2>3, <2>4, <2>5, CollectionMoves DEF Inv
<1>2. CASE K6Next
  <2>1. ASSUME NEW n \in RunIds, RunFailsToStart(n) \/ SpawnFails(n) \/ ChildExits(n)
        PROVE  Ledger!Next
    <3>1. InProgress(n) BY <2>1 DEF RunFailsToStart, SpawnFails, ChildExits, Inv, SlotInv
    <3>2. CASE settleRun(n, "failed", "none") BY <3>1, <3>2, LedgerSettles
    <3>3. CASE ChildExits(n)
      <4>1. PICK code \in ExitCodes, measured \in BOOLEAN, lastLines \in BOOLEAN :
              LET how == settlementOf(n, proc[n].unreadable \/ lastLines, code, measured)
              IN settleRun(n, how[1], how[2])
        BY <3>3 DEF ChildExits
      <4> DEFINE how == settlementOf(n, proc[n].unreadable \/ lastLines, code, measured)
      <4>2. /\ how[1] \in {"completed", "cancelled", "failed"}
            /\ how[2] \in {"none", "user-requested"}
        BY DEF settlementOf, settledStatusOf
      <4>3. settleRun(n, how[1], how[2]) BY <4>1
      <4> HIDE DEF how
      <4> QED BY <3>1, <4>2, <4>3, LedgerSettles
    <3> QED BY <2>1, <3>2, <3>3 DEF RunFailsToStart, SpawnFails
  <2>2. ASSUME NEW k \in K6Kinds, NEW n \in RunIds, StartResumes(k, n) PROVE Ledger!Next
    BY <2>2, LedgerStarts DEF StartResumes, K6Kinds, Kinds
  <2>3. ASSUME NEW n \in RunIds, CancelK6Run(n) PROVE Statuses' = Statuses
    BY <2>3, CancelRow DEF CancelK6Run, Inv, Types, Statuses
  <2>4. ASSUME NEW n \in RunIds, K6Spawns(n) \/ MetricsUnreadable(n) \/ OrphanExits(n)
        PROVE  UNCHANGED rows
    BY <2>4 DEF K6Spawns, MetricsUnreadable, OrphanExits
  <2>5. ASSUME NEW k \in K6Kinds,
               \/ \E text \in Texts(k) : SaveDocument(k, text)
               \/ MakeReady(k) \/ DeleteDocument(k) \/ StartReads(k) \/ StartRefused(k)
        PROVE  UNCHANGED rows
    BY <2>5 DEF SaveDocument, MakeReady, DeleteDocument, StartReads, StartRefused
  <2> QED BY <1>0, <1>2, <2>1, <2>2, <2>3, <2>4, <2>5 DEF K6Next, K6Step
<1>3. ASSUME NEW n \in RunIds, StartSecurity(n) PROVE Ledger!Next
  BY <1>3, LedgerStarts DEF StartSecurity, Kinds
<1>4. ASSUME NEW n \in RunIds, SecurityRunEnds(n) PROVE Ledger!Next
  <2>1. InProgress(n) BY <1>4 DEF SecurityRunEnds, Inv, SlotInv
  <2>2. PICK how \in {<<"completed", "none">>, <<"failed", "none">>,
                      <<"cancelled", "user-requested">>} : settleRun(n, how[1], how[2])
    BY <1>4 DEF SecurityRunEnds
  <2> QED BY <2>1, <2>2, LedgerSettles
<1>5. CASE SessionExpires
  <2> DEFINE gone == {n \in RunIds : rows[n].status # "absent" /\ rows[n].kind # "security"}
  <2>1. Statuses' = [n \in RunIds |-> IF n \in gone THEN "deleted" ELSE Statuses[n]]
    BY <1>5 DEF SessionExpires, deleteBySession, Statuses, NoRow
  <2>2. PICK g \in SUBSET RunIds : g = gone OBVIOUS
  <2>3. Ledger!Delete(g) BY <2>1, <2>2 DEF Ledger!Delete, Statuses
  <2> QED BY <2>3 DEF Ledger!Next
<1>6. CASE Restart
  <2>1. rows' = [n \in RunIds |->
                   IF InProgress(n)
                   THEN [rows[n] EXCEPT !.status = "cancelled", !.reason = "backend-restart"]
                   ELSE rows[n]]
    BY <1>6 DEF Restart, markInterruptedRunsCancelled
  <2>2. ASSUME NEW n \in RunIds, InProgress(n) PROVE Ledger!Next
    <3>1. \A m \in RunIds : m # n => ~InProgress(m) BY <2>2 DEF Inv, SlotInv
    <3>2. \A m \in RunIds : m # n => rows'[m].status = rows[m].status BY <2>1, <3>1
    <3>3. rows[n] \in Row BY DEF Inv, Types
    <3>4. rows'[n] = [rows[n] EXCEPT !.status = "cancelled", !.reason = "backend-restart"]
      BY <2>1, <2>2
    <3>5. rows'[n].status = "cancelled" BY <3>3, <3>4 DEF Row
    <3> QED BY <2>2, <3>2, <3>5, LedgerEnds
  <2>3. CASE \A n \in RunIds : ~InProgress(n) BY <2>1, <2>3 DEF Statuses
  <2> QED BY <2>2, <2>3
<1>7. CASE UNCHANGED vars BY <1>0, <1>7 DEF vars
<1> QED BY <1>1, <1>2, <1>3, <1>4, <1>5, <1>6, <1>7 DEF Next

\* Whatever their kinds, the runs of a session are the ledger it was promised: one in progress at
\* a time, an end that is never rewritten (executionSlot.ts, the repositories' settle and
\* markInterruptedRunsCancelled).
THEOREM RunsImplementLedger == Spec => SlotSerial
<1>1. Init => Ledger!Init BY DEF Init, SlotInit, Ledger!Init, NoRow
<1>2. Inv /\ [Next]_vars => [Ledger!Next]_Statuses BY LedgerStep
<1> QED BY <1>1, <1>2, SpecInv, PTL DEF Spec, SlotSerial, Ledger!Spec, Statuses

(* ------------------------ what a run records --------------------------- *)

Result == [item : Items, outcome : Attempted \cup NotAttempted]

\* R holds one result for each of the places of the order, in that order.
Picks(R, order, places) ==
  \E at \in InOrder(places) :
    Len(R) = Cardinality(places) /\ \A i \in 1..Len(R) : R[i].item = order[at[i]]

\* The order of a run is one its start can give it.
RunOrder(n, order) ==
  /\ rows[n].kind = "generated" => order \in executionOrder
  /\ rows[n].kind = "uploaded" => order \in Orders

Reached(n) == ReportedPlaces(n, runners[n].order, 1) \cap 1..runners[n].attempted

\* While its runner is at work: what was sent and recorded is of the items it is done with, one
\* result each, and what failed or was withheld blocks.
Progress(n) ==
  LET r == runners[n]
  IN r.phase # "none" =>
       /\ RunOrder(n, r.order)
       /\ r.index = r.attempted + 1 /\ r.attempted <= Len(r.order)
       /\ \A item \in sent[n] :
            \E j \in 1..(IF r.phase = "sending" THEN r.index ELSE r.attempted) : item = r.order[j]
       /\ rows[n].kind = "generated" =>
            \A i \in 1..Len(results[n]) :
              results[n][i].outcome \in {"failed", "dependency-not-met"}
                => results[n][i].item \in r.blocked
       /\ Picks(results[n], r.order, Reached(n))

\* One result is of nothing it should not be, for a set of items sent.
Sound(kind, this, items) ==
  /\ this.outcome \in {"cancelled", "dependency-not-met"} => this.item \notin items
  /\ kind = "generated" /\ this.outcome \in {"failed", "dependency-not-met"} =>
       \A item \in items : this.item \notin Collection[item].needs

Withheld(n) == \A i \in 1..Len(results[n]) : Sound(rows[n].kind, results[n][i], sent[n])

AllRecorded(n) ==
  rows[n].kind \in {"generated", "uploaded"} /\ SettledByRunner(n) =>
    \E order \in Seq(Items) :
      RunOrder(n, order) /\ Picks(results[n], order, ReportedPlaces(n, order, 1))

Untouched(n) == rows[n].status = "absent" => results[n] = <<>> /\ sent[n] = {}

RecordsTyped ==
  /\ results \in [RunIds -> Seq(Result)]
  /\ sent \in [RunIds -> SUBSET Items]

RunRecords(n) == Untouched(n) /\ Progress(n) /\ Withheld(n) /\ AllRecorded(n)
RecordsInv == RecordsTyped /\ \A n \in RunIds : RunRecords(n)

(* ------------------------ places of an order --------------------------- *)

LEMMA PlacesFinite ==
  ASSUME NEW n, NEW order \in Seq(Items), NEW first \in Nat \ {0}, NEW S \in SUBSET ReportedPlaces(n, order, first)
  PROVE  IsFiniteSet(S) /\ Cardinality(S) \in Nat /\ S \subseteq 1..Len(order)
<1>1. Len(order) \in Nat OBVIOUS
<1>2. IsFiniteSet(1..Len(order)) BY <1>1, FS_Interval
<1>3. S \subseteq 1..Len(order) BY <1>1 DEF ReportedPlaces
<1> QED BY <1>2, <1>3, FS_Subset, FS_CardinalityType

\* One after the other, the places of two sets are those of their union.
LEMMA InOrderJoin ==
  ASSUME NEW A \in SUBSET Nat, NEW B \in SUBSET Nat, IsFiniteSet(A), IsFiniteSet(B),
         \A a \in A, b \in B : a < b, NEW f \in InOrder(A), NEW g \in InOrder(B)
  PROVE  LET k == Cardinality(A)  l == Cardinality(B)
         IN  /\ k \in Nat /\ l \in Nat /\ Cardinality(A \cup B) = k + l
             /\ [i \in 1..(k + l) |-> IF i <= k THEN f[i] ELSE g[i - k]] \in InOrder(A \cup B)
<1> DEFINE k == Cardinality(A)
           l == Cardinality(B)
           h == [i \in 1..(k + l) |-> IF i <= k THEN f[i] ELSE g[i - k]]
<1>1. k \in Nat /\ l \in Nat BY FS_CardinalityType
<1>2. Cardinality(A \cup B) = k + l
  <2>1. A \cap B = {} OBVIOUS
  <2>2. Cardinality(A \cap B) = 0 BY <2>1, FS_EmptySet
  <2>3. Cardinality(A \cup B) = Cardinality(A) + Cardinality(B) - Cardinality(A \cap B)
    BY FS_Union
  <2> QED BY <1>1, <2>2, <2>3
<1>3. /\ f \in [1..k -> A] /\ \A i, j \in 1..k : i < j => f[i] < f[j]
      /\ g \in [1..l -> B] /\ \A i, j \in 1..l : i < j => g[i] < g[j]
  BY DEF InOrder
<1> HIDE DEF k, l
<1>4. \A i \in 1..(k + l) : h[i] \in A \cup B
  <2> SUFFICES ASSUME NEW i \in 1..(k + l) PROVE h[i] \in A \cup B OBVIOUS
  <2>1. CASE i <= k BY <1>1, <1>3, <2>1
  <2>2. CASE ~(i <= k)
    <3>1. i - k \in 1..l BY <1>1, <2>2
    <3> QED BY <1>1, <1>3, <2>2, <3>1
  <2> QED BY <2>1, <2>2
<1>5. ASSUME NEW i \in 1..(k + l), NEW j \in 1..(k + l), i < j PROVE h[i] < h[j]
  <2>1. CASE j <= k
    <3>1. i \in 1..k /\ j \in 1..k BY <1>1, <1>5, <2>1
    <3> QED BY <1>3, <1>5, <2>1, <3>1
  <2>2. CASE i <= k /\ ~(j <= k)
    <3>1. i \in 1..k /\ j - k \in 1..l BY <1>1, <2>2
    <3>2. h[i] = f[i] /\ h[j] = g[j - k] BY <2>2
    <3>3. f[i] \in A /\ g[j - k] \in B BY <1>3, <3>1
    <3> QED BY <3>2, <3>3
  <2>3. CASE ~(i <= k)
    <3>1. i - k \in 1..l /\ j - k \in 1..l /\ i - k < j - k BY <1>1, <1>5, <2>3
    <3>2. h[i] = g[i - k] /\ h[j] = g[j - k] BY <1>1, <1>5, <2>3
    <3> QED BY <1>3, <3>1, <3>2
  <2> QED BY <1>1, <2>1, <2>2, <2>3
<1>6. h \in [1..(k + l) -> A \cup B] BY <1>4
<1> HIDE DEF h
<1>7. h \in InOrder(A \cup B)
  <2>1. h \in [1..Cardinality(A \cup B) -> A \cup B] BY <1>2, <1>6
  <2>2. DOMAIN h = 1..(k + l) BY <1>6
  <2> QED BY <1>5, <2>1, <2>2 DEF InOrder
<1> QED BY <1>1, <1>2, <1>7 DEF h, k, l

LEMMA JoinedFrom ==
  ASSUME NEW T, NEW R \in Seq(T), NEW S \in Seq(T), NEW i \in 1..Len(R \o S)
  PROVE  \/ i \in 1..Len(R) /\ (R \o S)[i] = R[i]
         \/ i - Len(R) \in 1..Len(S) /\ (R \o S)[i] = S[i - Len(R)] /\ ~(i <= Len(R))
OBVIOUS

\* Results for some places, then for later ones, are results for all of them.
LEMMA PicksJoin ==
  ASSUME NEW R \in Seq(Result), NEW S \in Seq(Result), NEW order, NEW A \in SUBSET Nat,
         NEW B \in SUBSET Nat, IsFiniteSet(A), IsFiniteSet(B), \A a \in A, b \in B : a < b,
         Picks(R, order, A), Picks(S, order, B)
  PROVE  Picks(R \o S, order, A \cup B)
<1>1. PICK f \in InOrder(A) :
        Len(R) = Cardinality(A) /\ \A i \in 1..Len(R) : R[i].item = order[f[i]]
  BY DEF Picks
<1>2. PICK g \in InOrder(B) :
        Len(S) = Cardinality(B) /\ \A i \in 1..Len(S) : S[i].item = order[g[i]]
  BY DEF Picks
<1> DEFINE k == Len(R)
           l == Len(S)
           h == [i \in 1..(k + l) |-> IF i <= k THEN f[i] ELSE g[i - k]]
<1> DEFINE a == Cardinality(A)
           b == Cardinality(B)
           hh == [i \in 1..(a + b) |-> IF i <= a THEN f[i] ELSE g[i - a]]
<1>3. k \in Nat /\ l \in Nat /\ Cardinality(A \cup B) = k + l /\ h \in InOrder(A \cup B)
  <2>1. a \in Nat /\ b \in Nat /\ Cardinality(A \cup B) = a + b /\ hh \in InOrder(A \cup B)
    BY InOrderJoin
  <2>2. a = k /\ b = l BY <1>1, <1>2
  <2> HIDE DEF a, b, k, l
  <2>3. hh = h BY <2>2
  <2> QED BY <2>1, <2>2, <2>3
<1>4. Len(R \o S) = k + l OBVIOUS
<1>5. ASSUME NEW i \in 1..Len(R \o S) PROVE (R \o S)[i].item = order[h[i]]
  <2>1. i \in 1..(k + l) BY <1>4
  <2>2. CASE i \in 1..k /\ (R \o S)[i] = R[i]
    <3>1. h[i] = f[i] BY <1>3, <2>1, <2>2
    <3> QED BY <1>1, <2>2, <3>1
  <2>3. CASE i - k \in 1..l /\ (R \o S)[i] = S[i - k] /\ ~(i <= k)
    <3>1. h[i] = g[i - k] BY <2>1, <2>3
    <3> QED BY <1>2, <2>3, <3>1
  <2> QED BY <2>2, <2>3, JoinedFrom
<1> HIDE DEF h
<1> QED BY <1>3, <1>4, <1>5 DEF Picks

\* Nothing for no place, and one result for one.
LEMMA PicksNone == ASSUME NEW order PROVE Picks(<<>>, order, {})
<1> DEFINE f == [i \in 1..0 |-> i]
<1>1. Cardinality({}) = 0 BY FS_EmptySet
<1>2. f \in InOrder({}) BY <1>1 DEF InOrder
<1> HIDE DEF f
<1> QED BY <1>1, <1>2 DEF Picks

LEMMA PicksOne ==
  ASSUME NEW order, NEW p \in Nat, NEW x \in Result, x.item = order[p]
  PROVE  Picks(<<x>>, order, {p})
<1> DEFINE f == [i \in 1..1 |-> p]
<1>1. Cardinality({p}) = 1 BY FS_Singleton
<1>2. f \in InOrder({p}) BY <1>1 DEF InOrder
<1>3. Len(<<x>>) = 1 /\ <<x>>[1] = x /\ f[1] = p OBVIOUS
<1> HIDE DEF f
<1>4. \A i \in 1..Len(<<x>>) : <<x>>[i].item = order[f[i]] BY <1>3
<1> QED BY <1>1, <1>2, <1>3, <1>4 DEF Picks

(* -------------------- what a step does to the records ------------------ *)

LEMMA OrderPlaces ==
  ASSUME NEW n \in RunIds, NEW order, RunOrder(n, order), rows[n].kind \in {"generated", "uploaded"}
  PROVE  /\ order \in Seq(Items)
         /\ \A i, j \in 1..Len(order) : i < j =>
              /\ order[i] # order[j]
              /\ rows[n].kind = "generated" => ~Before(order[j], order[i])
<1>1. CASE rows[n].kind = "generated"
  <2>1. order \in executionOrder BY <1>1 DEF RunOrder
  <2>2. order \in Seq(Items) BY <2>1, OrdersTyped
  <2>3. DOMAIN order = 1..Len(order) BY <2>2
  <2>4. \A i, j \in DOMAIN order : i < j => order[i] # order[j] /\ ~Before(order[j], order[i])
    <3> HIDE DEF Before
    <3> QED BY <2>1 DEF executionOrder
  <2> HIDE DEF Before
  <2> QED BY <2>2, <2>3, <2>4
<1>2. CASE rows[n].kind = "uploaded"
  <2>1. order \in Orders BY <1>2 DEF RunOrder
  <2>2. order \in Seq(Items) BY <2>1, CollectionAssumption
  <2>3. DOMAIN order = 1..Len(order) BY <2>2
  <2>4. \A i, j \in 1..Len(order) : order[i] = order[j] => i = j
    BY <2>1, <2>3, CollectionAssumption
  <2> QED BY <1>2, <2>2, <2>4
<1> QED BY <1>1, <1>2

LEMMA SamePlaces ==
  ASSUME NEW n \in RunIds, rows'[n].kind = rows[n].kind
  PROVE  \A order, first : ReportedPlaces(n, order, first)' = ReportedPlaces(n, order, first)
BY DEF ReportedPlaces, Reported

\* A run that the step does not touch, or whose runner just ends.
LEMMA RunFrame ==
  ASSUME NEW n \in RunIds, RunRecords(n), results'[n] = results[n], sent'[n] = sent[n],
         rows'[n].kind = rows[n].kind, rows'[n].status = "absent" => rows[n].status = "absent",
         rows[n].kind \in {"generated", "uploaded"} /\ SettledByRunner(n)' => SettledByRunner(n),
         runners'[n] = runners[n] \/ runners'[n].phase = "none"
  PROVE  RunRecords(n)'
<1>1. Untouched(n)' BY DEF RunRecords, Untouched
<1>2. Progress(n)'
  <2>1. CASE runners'[n].phase = "none" BY <2>1 DEF Progress
  <2>2. CASE runners'[n] = runners[n]
    <3>1. RunOrder(n, runners[n].order)' <=> RunOrder(n, runners[n].order) BY <2>2 DEF RunOrder
    <3>2. Reached(n)' = Reached(n) BY <2>2 DEF Reached, ReportedPlaces, Reported
    <3> QED BY <2>2, <3>1, <3>2 DEF RunRecords, Progress
  <2> QED BY <2>1, <2>2
<1>3. Withheld(n)' BY DEF RunRecords, Withheld, Sound
<1>4. AllRecorded(n)'
  <2> SUFFICES ASSUME rows[n].kind \in {"generated", "uploaded"}, SettledByRunner(n)'
               PROVE  \E order \in Seq(Items) :
                        /\ RunOrder(n, order)'
                        /\ Picks(results[n], order, ReportedPlaces(n, order, 1)')
    BY DEF AllRecorded
  <2>1. PICK order \in Seq(Items) :
          RunOrder(n, order) /\ Picks(results[n], order, ReportedPlaces(n, order, 1))
    BY DEF RunRecords, AllRecorded
  <2>2. RunOrder(n, order)' BY <2>1 DEF RunOrder
  <2>3. ReportedPlaces(n, order, 1)' = ReportedPlaces(n, order, 1) BY SamePlaces
  <2> QED BY <2>1, <2>2, <2>3
<1> QED BY <1>1, <1>2, <1>3, <1>4 DEF RunRecords

\* A run that starts.
LEMMA RunFresh ==
  ASSUME NEW n \in RunIds, Types, RunRecords(n), rows[n].status = "absent", ~SettledByRunner(n)',
         rows'[n].status # "absent",
         results'[n] = results[n], sent'[n] = sent[n], runners' \in [RunIds -> Runner],
         \/ runners'[n].phase = "none"
         \/ /\ runners'[n].index = 1 /\ runners'[n].attempted = 0
            /\ RunOrder(n, runners[n].order)'
  PROVE  RunRecords(n)'
<1>1. results'[n] = <<>> /\ sent'[n] = {} BY DEF RunRecords, Untouched
<1>2. Untouched(n)' BY DEF Untouched
<1>3. Progress(n)'
  <2>1. CASE runners'[n].phase = "none" BY <2>1 DEF Progress
  <2>2. CASE runners'[n].phase # "none"
    <3>1. runners'[n].index = 1 /\ runners'[n].attempted = 0 /\ RunOrder(n, runners[n].order)'
      BY <2>2
    <3>2. runners'[n].order \in Seq(Items) BY DEF Runner
    <3>3. Reached(n)' = {}
      <4>1. 1..runners'[n].attempted = {} BY <3>1
      <4> QED BY <4>1 DEF Reached
    <3>4. Picks(results'[n], runners'[n].order, Reached(n)') BY <1>1, <3>3, PicksNone
    <3> QED BY <1>1, <3>1, <3>2, <3>4 DEF Progress
  <2> QED BY <2>1, <2>2
<1>4. Withheld(n)' BY <1>1 DEF Withheld
<1>5. AllRecorded(n)' BY DEF AllRecorded
<1> QED BY <1>2, <1>3, <1>4, <1>5 DEF RunRecords

\* The runner of a run at work is typed, and its order has every item once.
LEMMA AtWork ==
  ASSUME NEW n \in RunIds, Types, SlotInv, RunRecords(n), runners[n].phase # "none"
  PROVE  /\ rows[n].kind \in {"generated", "uploaded"} /\ rows[n].status # "absent"
         /\ runners[n].order \in Seq(Items) /\ Len(runners[n].order) \in Nat
         /\ runners[n].attempted \in Nat /\ runners[n].index = runners[n].attempted + 1
         /\ runners[n].attempted <= Len(runners[n].order)
         /\ RunOrder(n, runners[n].order)
         /\ Picks(results[n], runners[n].order, Reached(n))
         /\ \A i, j \in 1..Len(runners[n].order) : i < j =>
              /\ runners[n].order[i] # runners[n].order[j]
              /\ rows[n].kind = "generated" => ~Before(runners[n].order[j], runners[n].order[i])
<1>1. rows[n].kind \in {"generated", "uploaded"} /\ rows[n].status # "absent" BY DEF SlotInv
<1>2. runners[n] \in Runner BY DEF Types
<1>3. /\ RunOrder(n, runners[n].order) /\ runners[n].index = runners[n].attempted + 1
      /\ runners[n].attempted <= Len(runners[n].order)
      /\ Picks(results[n], runners[n].order, Reached(n))
  BY DEF RunRecords, Progress
<1>4. runners[n].order \in Seq(Items) /\ runners[n].attempted \in Nat BY <1>2 DEF Runner
<1> HIDE DEF Before, Reached, RunOrder
<1> QED BY <1>1, <1>3, <1>4, OrderPlaces

LEMMA SeqOfFunction ==
  ASSUME NEW T, NEW k \in Nat, NEW f \in [1..k -> T] PROVE f \in Seq(T) /\ Len(f) = k
OBVIOUS

LEMMA ConcatTyped ==
  ASSUME NEW T, NEW R \in Seq(T), NEW S \in Seq(T) PROVE R \o S \in Seq(T)
OBVIOUS

\* What a run has sent is of the places its runner is done with, or is at.
LEMMA SentPlaces ==
  ASSUME NEW n \in RunIds, Types, RunRecords(n), runners[n].phase # "none"
  PROVE  /\ \A item \in sent[n] : \E j \in 1..runners[n].index : item = runners[n].order[j]
         /\ runners[n].phase # "sending" =>
              \A item \in sent[n] : \E j \in 1..runners[n].attempted : item = runners[n].order[j]
<1> DEFINE r == runners[n]
<1>1. \A item \in sent[n] :
        \E j \in 1..(IF r.phase = "sending" THEN r.index ELSE r.attempted) : item = r.order[j]
  BY DEF RunRecords, Progress
<1>2. r.index = r.attempted + 1 /\ r.attempted \in Nat
  BY DEF RunRecords, Progress, Types, Runner
<1>3. CASE r.phase = "sending" BY <1>1, <1>3
<1>4. CASE r.phase # "sending"
  <2>1. \A item \in sent[n] : \E j \in 1..r.attempted : item = r.order[j] BY <1>1, <1>4
  <2>2. \A j \in 1..r.attempted : j \in 1..r.index BY <1>2
  <2>3. \A item \in sent[n] : \E j \in 1..r.index : item = r.order[j]
    <3> HIDE DEF r
    <3> QED BY <2>1, <2>2
  <2> QED BY <1>4, <2>1, <2>3
<1> QED BY <1>3, <1>4

\* A runner that ends its run records every request it is not done with.
LEMMA SettledRecords ==
  ASSUME NEW n \in RunIds, Types, SlotInv, RecordsTyped, RunRecords(n), runners[n].phase # "none",
         rows'[n].kind = rows[n].kind, rows'[n].status # "absent", runners'[n].phase = "none",
         sent'[n] = sent[n], NEW reason \in {"cancelled", "run-ended-before-reached"},
         reason = "cancelled" => runners[n].phase # "sending",
         NEW at \in InOrder(ReportedPlaces(n, runners[n].order, runners[n].attempted + 1)),
         results'[n] = results[n] \o [i \in DOMAIN at |-> [item |-> runners[n].order[at[i]],
                                                         outcome |-> reason]]
  PROVE  RunRecords(n)' /\ results'[n] \in Seq(Result)
<1> DEFINE order == runners[n].order
           done == runners[n].attempted
           A == Reached(n)
           B == ReportedPlaces(n, order, done + 1)
           S == [i \in DOMAIN at |-> [item |-> order[at[i]], outcome |-> reason]]
<1>1. /\ rows[n].kind \in {"generated", "uploaded"}
      /\ order \in Seq(Items) /\ Len(order) \in Nat /\ done \in Nat /\ done <= Len(order)
      /\ RunOrder(n, order) /\ Picks(results[n], order, A)
      /\ \A i, j \in 1..Len(order) : i < j => order[i] # order[j]
  BY AtWork
<1>2. results[n] \in Seq(Result) BY DEF RecordsTyped
<1>3. /\ A \in SUBSET ReportedPlaces(n, order, 1) /\ B \in SUBSET ReportedPlaces(n, order, done + 1)
      /\ A \cup B = ReportedPlaces(n, order, 1) /\ \A a \in A, b \in B : a < b
  BY <1>1 DEF Reached, ReportedPlaces
<1>4. /\ IsFiniteSet(A) /\ A \in SUBSET Nat
      /\ IsFiniteSet(B) /\ B \subseteq 1..Len(order) /\ Cardinality(B) \in Nat
  <2> HIDE DEF A, B
  <2>1. 1 \in Nat \ {0} /\ done + 1 \in Nat \ {0} BY <1>1
  <2>2. A \subseteq 1..Len(order) /\ IsFiniteSet(A) BY <1>1, <1>3, <2>1, PlacesFinite
  <2>3. B \subseteq 1..Len(order) /\ IsFiniteSet(B) /\ Cardinality(B) \in Nat
    BY <1>1, <1>3, <2>1, PlacesFinite
  <2> QED BY <2>2, <2>3
<1>5. at \in [1..Cardinality(B) -> B] BY DEF InOrder
<1>6. \A b \in B : b \in 1..Len(order) /\ ~(b <= done) BY <1>1 DEF ReportedPlaces
<1> HIDE DEF A, B
<1>7. /\ S \in Seq(Result) /\ Len(S) = Cardinality(B)
      /\ \A i \in 1..Len(S) : /\ S[i].item = order[at[i]] /\ S[i].outcome = reason
                              /\ at[i] \in B
  <2>1. \A i \in 1..Cardinality(B) : at[i] \in B /\ order[at[i]] \in Items
    BY <1>1, <1>4, <1>5
  <2>2. S = [i \in 1..Cardinality(B) |-> [item |-> order[at[i]], outcome |-> reason]]
    BY <1>5
  <2>3. reason \in Attempted \cup NotAttempted BY DEF NotAttempted
  <2>4. S \in [1..Cardinality(B) -> Result] BY <2>1, <2>2, <2>3 DEF Result
  <2>5. S \in Seq(Result) /\ Len(S) = Cardinality(B)
    <3> HIDE DEF S
    <3> QED BY <1>4, <2>4, SeqOfFunction
  <2>6. \A i \in 1..Cardinality(B) : S[i].item = order[at[i]] /\ S[i].outcome = reason BY <2>2
  <2> HIDE DEF S
  <2> QED BY <2>1, <2>5, <2>6
<1>8. Picks(S, order, B)
  <2>1. at \in InOrder(B) BY DEF B
  <2> HIDE DEF S, order
  <2> QED BY <1>7, <2>1 DEF Picks
<1>9. results'[n] = results[n] \o S OBVIOUS
<1> HIDE DEF S
<1>10. Picks(results'[n], order, ReportedPlaces(n, order, 1))
  <2>1. B \in SUBSET Nat BY <1>4
  <2>2. Picks(results[n] \o S, order, A \cup B)
    BY <1>1, <1>2, <1>3, <1>4, <1>7, <1>8, <2>1, PicksJoin
  <2> QED BY <1>3, <1>9, <2>2
<1>11. AllRecorded(n)'
  <2>1. RunOrder(n, order) <=> /\ rows'[n].kind = "generated" => order \in executionOrder
                               /\ rows'[n].kind = "uploaded" => order \in Orders
    BY DEF RunOrder
  <2>2. PICK o \in Seq(Items) : o = order BY <1>1
  <2>3. RunOrder(n, o)' BY <1>1, <2>1, <2>2 DEF RunOrder
  <2>4. ReportedPlaces(n, o, 1)' = ReportedPlaces(n, o, 1) BY SamePlaces
  <2>5. Picks(results'[n], o, ReportedPlaces(n, o, 1)') BY <1>10, <2>2, <2>4
  <2> QED BY <2>3, <2>5 DEF AllRecorded
<1>12. Withheld(n)'
  <2> SUFFICES ASSUME NEW i \in 1..Len(results[n] \o S)
               PROVE  Sound(rows[n].kind, (results[n] \o S)[i], sent[n])
    BY <1>9 DEF Withheld
  <2>1. CASE i \in 1..Len(results[n]) /\ (results[n] \o S)[i] = results[n][i]
    BY <2>1 DEF RunRecords, Withheld
  <2>2. ASSUME NEW k \in 1..Len(S), (results[n] \o S)[i] = S[k]
        PROVE  Sound(rows[n].kind, (results[n] \o S)[i], sent[n])
    <3>1. S[k].item = order[at[k]] /\ S[k].outcome = reason /\ at[k] \in B BY <1>7
    <3>2. CASE reason = "run-ended-before-reached" BY <2>2, <3>1, <3>2 DEF Sound
    <3>3. CASE reason = "cancelled"
      <4>1. \A item \in sent[n] : \E j \in 1..done : item = order[j] BY <3>3, SentPlaces
      <4>2. at[k] \in 1..Len(order) /\ ~(at[k] <= done) BY <1>6, <3>1
      <4>3. \A j \in 1..done : order[j] # order[at[k]]
        <5>1. PICK p \in 1..Len(order) : p = at[k] /\ ~(p <= done) BY <4>2
        <5>2. \A j \in 1..done : j \in 1..Len(order) /\ j < p BY <1>1, <5>1
        <5> QED BY <1>1, <5>1, <5>2
      <4>4. order[at[k]] \notin sent[n] BY <4>1, <4>3
      <4> QED BY <2>2, <3>1, <3>3, <4>4 DEF Sound
    <3> QED BY <3>2, <3>3
  <2> HIDE DEF Sound
  <2> QED BY <1>2, <1>7, <2>1, <2>2, JoinedFrom
<1>13. Untouched(n)' /\ Progress(n)' BY DEF Untouched, Progress
<1>14. results'[n] \in Seq(Result) BY <1>2, <1>7, <1>9, ConcatTyped
<1> QED BY <1>11, <1>12, <1>13, <1>14 DEF RunRecords

LEMMA NextFields ==
  ASSUME NEW r \in Runner, NEW blocked \in SUBSET Items
  PROVE  LET q == next(r, blocked)
         IN  /\ q.order = r.order /\ q.attempted = r.index /\ q.index = r.index + 1
             /\ q.blocked = blocked /\ q.phase = "loop"
<1> DEFINE q1 == [r EXCEPT !.phase = "loop", !.attempted = r.index]
           q2 == [q1 EXCEPT !.index = r.index + 1]
           q3 == [q2 EXCEPT !.blocked = blocked, !.paused = FALSE]
<1>1. r.index + 1 \in Nat \ {0} /\ r.index \in Nat BY DEF Runner
<1>2. q1 \in Runner /\ q1.phase = "loop" /\ q1.order = r.order /\ q1.attempted = r.index
  BY <1>1 DEF Runner
<1>3. /\ q2 \in Runner /\ q2.phase = "loop" /\ q2.order = r.order /\ q2.attempted = r.index
      /\ q2.index = r.index + 1
  <2> HIDE DEF q1
  <2> QED BY <1>1, <1>2 DEF Runner
<1>4. /\ q3.phase = "loop" /\ q3.order = r.order /\ q3.attempted = r.index
      /\ q3.index = r.index + 1 /\ q3.blocked = blocked
  <2> HIDE DEF q1, q2
  <2> QED BY <1>3 DEF Runner
<1>5. next(r, blocked) = q3 BY DEF next
<1> HIDE DEF q1, q2, q3
<1> QED BY <1>4, <1>5

\* No item needs itself.
LEMMA NotBeforeItself == ASSUME NEW a \in Items PROVE ~Before(a, a)
<1>1. Collection[a].flow \in Nat /\ Collection[a].position \in Nat BY CollectionAssumption
<1> QED BY <1>1 DEF Before

\* The runner is done with the item it is at: it records a result for it, or the item has none.
LEMMA NextRecords ==
  ASSUME NEW n \in RunIds, Types, SlotInv, RecordsTyped, RunRecords(n), runners[n].phase # "none",
         runners[n].index <= Len(runners[n].order), UNCHANGED <<rows, sent>>,
         NEW blocked \in SUBSET Items, runners[n].blocked \subseteq blocked,
         runners' = [runners EXCEPT ![n] = next(runners[n], blocked)],
         NEW item, item = runners[n].order[runners[n].index],
         NEW outcome \in Attempted \cup {"dependency-not-met"},
         outcome = "dependency-not-met" => runners[n].phase # "sending",
         \/ /\ Reported(n, item) /\ appendResult(n, item, outcome)
            /\ rows[n].kind = "generated" /\ outcome \in {"failed", "dependency-not-met"}
                 => item \in blocked
         \/ ~Reported(n, item) /\ results' = results
  PROVE  RunRecords(n)' /\ RecordsTyped'
<1> DEFINE order == runners[n].order
           done == runners[n].attempted
           index == runners[n].index
           x == [item |-> item, outcome |-> outcome]
           A == Reached(n)
<1>1. /\ rows[n].kind \in {"generated", "uploaded"} /\ rows[n].status # "absent"
      /\ order \in Seq(Items) /\ Len(order) \in Nat /\ done \in Nat /\ index = done + 1
      /\ RunOrder(n, order) /\ Picks(results[n], order, A)
      /\ \A i, j \in 1..Len(order) : i < j =>
           /\ order[i] # order[j]
           /\ rows[n].kind = "generated" => ~Before(order[j], order[i])
  BY AtWork
<1>2. results[n] \in Seq(Result) /\ results \in [RunIds -> Seq(Result)] BY DEF RecordsTyped
<1>3. index \in 1..Len(order) /\ item \in Items BY <1>1
<1>4. x \in Result BY <1>3 DEF Result, NotAttempted, Attempted
<1>5. /\ runners'[n].order = order /\ runners'[n].attempted = index
      /\ runners'[n].index = index + 1 /\ runners'[n].blocked = blocked
      /\ runners'[n].phase = "loop"
  <2>1. runners'[n] = next(runners[n], blocked) BY DEF Types
  <2>2. runners[n] \in Runner BY DEF Types
  <2> QED BY <2>1, <2>2, NextFields
<1>6. /\ Reached(n)' = IF Reported(n, item) THEN A \cup {index} ELSE A
      /\ A \in SUBSET ReportedPlaces(n, order, 1) /\ \A a \in A : a < index
  <2>1. A = {p \in 1..Len(order) : Reported(n, order[p]) /\ p <= done}
    BY <1>1 DEF Reached, ReportedPlaces
  <2>2. Reached(n)' = {p \in 1..Len(order) : Reported(n, order[p]) /\ p <= index}
    BY <1>1, <1>5 DEF Reached, ReportedPlaces, Reported
  <2>3. \A p \in 1..Len(order) : p <= index <=> p <= done \/ p = index BY <1>1
  <2>4. A \in SUBSET ReportedPlaces(n, order, 1)
    <3>1. A \subseteq ReportedPlaces(n, order, 1) BY DEF Reached
    <3> QED BY <3>1
  <2>5. \A a \in A : a < index BY <1>1, <2>1
  <2> HIDE DEF A, order, done, index
  <2>6. Reached(n)' = IF Reported(n, item) THEN A \cup {index} ELSE A
    <3>1. item = order[index] BY DEF order, index
    <3> HIDE DEF Reported
    <3>2. CASE Reported(n, item) BY <1>3, <2>1, <2>2, <2>3, <3>1, <3>2
    <3>3. CASE ~Reported(n, item) BY <1>3, <2>1, <2>2, <2>3, <3>1, <3>3
    <3> QED BY <3>2, <3>3
  <2> QED BY <2>4, <2>5, <2>6
<1>7. IsFiniteSet(A) /\ A \in SUBSET Nat
  <2> HIDE DEF A, order
  <2>1. 1 \in Nat \ {0} OBVIOUS
  <2>2. A \subseteq 1..Len(order) /\ IsFiniteSet(A) BY <1>1, <1>6, <2>1, PlacesFinite
  <2> QED BY <2>2
<1> HIDE DEF A
<1>8. \A y \in sent[n] : \E j \in 1..index : y = order[j] BY SentPlaces
\* What the new result may say of what was sent.
<1>9. Sound(rows[n].kind, x, sent[n])
  <2>1. outcome = "dependency-not-met" => item \notin sent[n]
    <3> SUFFICES ASSUME outcome = "dependency-not-met" PROVE item \notin sent[n] OBVIOUS
    <3>1. \A y \in sent[n] : \E j \in 1..done : y = order[j] BY SentPlaces
    <3>2. \A j \in 1..done : j \in 1..Len(order) /\ j < index BY <1>1, <1>3
    <3>3. \A j \in 1..done : order[j] # item BY <1>1, <1>3, <3>2
    <3> QED BY <3>1, <3>3
  <2>2. ASSUME rows[n].kind = "generated", NEW y \in sent[n]
        PROVE  item \notin Collection[y].needs
    <3>1. PICK j \in 1..index : y = order[j] BY <1>8
    <3>2. y \in Items BY DEF RecordsTyped
    <3>3. item \in Collection[y].needs => Before(item, y) BY <3>2, HandOffAssumption
    <3>4. CASE j = index BY <1>3, <3>1, <3>3, <3>4, NotBeforeItself
    <3>5. CASE j # index
      <4>1. j \in 1..Len(order) /\ j < index BY <1>1, <1>3, <3>1, <3>5
      <4>2. ~Before(item, y) BY <1>1, <1>3, <2>2, <3>1, <4>1
      <4> QED BY <3>3, <4>2
    <3> QED BY <3>4, <3>5
  <2>3. outcome # "cancelled" BY DEF Attempted
  <2> QED BY <2>1, <2>2, <2>3 DEF Sound
<1>10. \/ /\ Reported(n, item) /\ results' = [results EXCEPT ![n] = Append(results[n], x)]
          /\ rows[n].kind = "generated" /\ outcome \in {"failed", "dependency-not-met"}
               => item \in blocked
       \/ ~Reported(n, item) /\ results' = results
  BY DEF appendResult
<1> HIDE DEF x
<1>11. /\ Append(results[n], x) \in Seq(Result)
       /\ Append(results[n], x) = results[n] \o <<x>>
       /\ Len(Append(results[n], x)) = Len(results[n]) + 1 /\ Len(results[n]) \in Nat
       /\ \A i \in 1..(Len(results[n]) + 1) :
            \/ i \in 1..Len(results[n]) /\ Append(results[n], x)[i] = results[n][i]
            \/ Append(results[n], x)[i] = x
  BY <1>2, <1>4
<1>12. RecordsTyped' BY <1>2, <1>10, <1>11 DEF RecordsTyped
<1>13. CASE Reported(n, item)
  <2>1. results'[n] = Append(results[n], x) BY <1>2, <1>10, <1>13
  <2>2. Withheld(n)'
    <3> SUFFICES ASSUME NEW i \in 1..(Len(results[n]) + 1)
                 PROVE  Sound(rows[n].kind, Append(results[n], x)[i], sent[n])
      BY <1>11, <2>1 DEF Withheld
    <3>1. \A k \in 1..Len(results[n]) : Sound(rows[n].kind, results[n][k], sent[n])
      BY DEF RunRecords, Withheld
    <3> HIDE DEF Sound
    <3> QED BY <1>9, <1>11, <3>1
  <2>3. Picks(results'[n], order, Reached(n)')
    <3>1. {index} \in SUBSET Nat /\ IsFiniteSet({index})
      <4>1. index \in Nat BY <1>1
      <4>2. IsFiniteSet({index}) BY FS_Singleton
      <4> QED BY <4>1, <4>2
    <3>2. x.item = order[index] BY DEF x
    <3>3. Picks(<<x>>, order, {index})
      <4>1. index \in Nat BY <1>1
      <4> HIDE DEF order, index
      <4> QED BY <1>4, <3>2, <4>1, PicksOne
    <3>4. <<x>> \in Seq(Result) BY <1>4
    <3>5. \A a \in A, b \in {index} : a < b BY <1>6
    <3> HIDE DEF order, index
    <3>6. Picks(results[n] \o <<x>>, order, A \cup {index})
      BY <1>1, <1>2, <1>7, <3>1, <3>3, <3>4, <3>5, PicksJoin
    <3>7. Reached(n)' = A \cup {index} BY <1>6, <1>13
    <3>8. results'[n] = results[n] \o <<x>> BY <1>11, <2>1
    <3> QED BY <3>6, <3>7, <3>8
  <2>4. rows[n].kind = "generated" =>
          \A i \in 1..Len(results'[n]) :
            results'[n][i].outcome \in {"failed", "dependency-not-met"}
              => results'[n][i].item \in blocked
    <3> SUFFICES ASSUME rows[n].kind = "generated", NEW i \in 1..(Len(results[n]) + 1),
                        Append(results[n], x)[i].outcome \in {"failed", "dependency-not-met"}
                 PROVE  Append(results[n], x)[i].item \in blocked
      BY <1>11, <2>1
    <3>1. \A k \in 1..Len(results[n]) :
            results[n][k].outcome \in {"failed", "dependency-not-met"}
              => results[n][k].item \in blocked
      BY DEF RunRecords, Progress
    <3>2. x.item = item /\ x.outcome = outcome BY DEF x
    <3>3. CASE i \in 1..Len(results[n]) /\ Append(results[n], x)[i] = results[n][i]
      BY <3>1, <3>3
    <3>4. CASE Append(results[n], x)[i] = x BY <1>10, <1>13, <3>2, <3>4
    <3> QED BY <1>11, <3>3, <3>4
  <2>5. Progress(n)'
    <3>1. RunOrder(n, runners[n].order)' BY <1>1, <1>5 DEF RunOrder
    <3>2. \A y \in sent'[n] : \E j \in 1..index : y = order[j] BY <1>8
    <3> HIDE DEF order, index
    <3> QED BY <1>3, <1>5, <2>3, <2>4, <3>1, <3>2 DEF Progress
  <2>6. Untouched(n)' /\ AllRecorded(n)'
    <3>1. ~SettledByRunner(n)' /\ rows'[n].status # "absent" BY <1>1 DEF SlotInv, SettledByRunner
    <3> QED BY <3>1 DEF Untouched, AllRecorded
  <2> QED BY <1>12, <2>2, <2>5, <2>6 DEF RunRecords
<1>14. CASE ~Reported(n, item)
  <2>1. results'[n] = results[n] BY <1>10, <1>14
  <2>2. Withheld(n)' BY <2>1 DEF RunRecords, Withheld
  <2>3. Picks(results'[n], order, Reached(n)') BY <1>1, <1>6, <1>14, <2>1
  <2>4. rows[n].kind = "generated" =>
          \A i \in 1..Len(results'[n]) :
            results'[n][i].outcome \in {"failed", "dependency-not-met"}
              => results'[n][i].item \in blocked
    BY <2>1 DEF RunRecords, Progress
  <2>5. Progress(n)'
    <3>1. RunOrder(n, runners[n].order)' BY <1>1, <1>5 DEF RunOrder
    <3>2. \A y \in sent'[n] : \E j \in 1..index : y = order[j] BY <1>8
    <3> HIDE DEF order, index
    <3> QED BY <1>3, <1>5, <2>3, <2>4, <3>1, <3>2 DEF Progress
  <2>6. Untouched(n)' /\ AllRecorded(n)'
    <3>1. ~SettledByRunner(n)' /\ rows'[n].status # "absent" BY <1>1 DEF SlotInv, SettledByRunner
    <3> QED BY <3>1 DEF Untouched, AllRecorded
  <2> QED BY <1>12, <2>2, <2>5, <2>6 DEF RunRecords
<1> QED BY <1>13, <1>14

\* The item is sent: nothing it needs failed or was withheld, and it was not sent before.
LEMMA SendRecords ==
  ASSUME NEW n \in RunIds, Types, SlotInv, RecordsTyped, RunRecords(n), runners[n].phase = "loop",
         LoopSends(n)
  PROVE  RunRecords(n)' /\ RecordsTyped'
<1> DEFINE order == runners[n].order
           done == runners[n].attempted
           index == runners[n].index
           item == order[index]
<1>1. /\ rows[n].kind \in {"generated", "uploaded"} /\ rows[n].status # "absent"
      /\ order \in Seq(Items) /\ Len(order) \in Nat /\ done \in Nat /\ index = done + 1
      /\ RunOrder(n, order) /\ Picks(results[n], order, Reached(n))
      /\ \A i, j \in 1..Len(order) : i < j => order[i] # order[j]
  BY AtWork
<1>2. index <= Len(order) BY DEF LoopSends, ReadyToSend
<1>3. index \in 1..Len(order) /\ item \in Items BY <1>1, <1>2
<1>4. /\ unmet(n, item) = {} /\ sent' = [sent EXCEPT ![n] = @ \cup {item}]
      /\ runners' = [runners EXCEPT ![n].phase = "sending"] /\ UNCHANGED <<rows, results>>
  BY DEF LoopSends
<1>5. sent'[n] = sent[n] \cup {item} /\ RecordsTyped' BY <1>3, <1>4 DEF RecordsTyped
<1>6. /\ runners'[n].order = order /\ runners'[n].attempted = done
      /\ runners'[n].index = index /\ runners'[n].blocked = runners[n].blocked
      /\ runners'[n].phase = "sending"
  BY <1>4 DEF Types, Runner
<1>7. \A y \in sent[n] : \E j \in 1..done : y = order[j] BY SentPlaces
\* Every result is of an item before this one.
<1>8. \A i \in 1..Len(results[n]) : results[n][i].item # item
  <2>1. PICK at \in InOrder(Reached(n)) :
          Len(results[n]) = Cardinality(Reached(n)) /\
          \A i \in 1..Len(results[n]) : results[n][i].item = order[at[i]]
    BY <1>1 DEF Picks
  <2>2. at \in [1..Cardinality(Reached(n)) -> Reached(n)] BY <2>1 DEF InOrder
  <2> SUFFICES ASSUME NEW i \in 1..Len(results[n]) PROVE results[n][i].item # item OBVIOUS
  <2>3. at[i] \in Reached(n) BY <2>1, <2>2
  <2>4. at[i] \in 1..Len(order) /\ at[i] < index BY <1>1, <1>3, <2>3 DEF Reached, ReportedPlaces
  <2>5. order[at[i]] # order[index] BY <1>1, <1>3, <2>4
  <2> QED BY <2>1, <2>5
<1>9. rows[n].kind = "generated" => Collection[item].needs \cap runners[n].blocked = {}
  <2>1. CASE Collection[item].synthesized
    <3>1. Collection[item].needs = {} BY <1>3, <2>1, HandOffAssumption
    <3> QED BY <3>1
  <2>2. CASE ~Collection[item].synthesized BY <1>4, <2>2 DEF unmet
  <2> QED BY <2>1, <2>2
<1> HIDE DEF item
<1>10. Withheld(n)'
  <2> SUFFICES ASSUME NEW i \in 1..Len(results[n])
               PROVE  Sound(rows[n].kind, results[n][i], sent[n] \cup {item})
    BY <1>4, <1>5 DEF Withheld
  <2>1. Sound(rows[n].kind, results[n][i], sent[n]) BY DEF RunRecords, Withheld
  <2>2. results[n][i].item # item BY <1>8
  <2>3. rows[n].kind = "generated"
          /\ results[n][i].outcome \in {"failed", "dependency-not-met"}
        => results[n][i].item \in runners[n].blocked
    BY DEF RunRecords, Progress
  <2> QED BY <1>9, <2>1, <2>2, <2>3 DEF Sound
<1>11. Progress(n)'
  <2>1. RunOrder(n, runners[n].order)' BY <1>1, <1>4, <1>6 DEF RunOrder
  <2>2. Reached(n)' = Reached(n) BY <1>4, <1>6 DEF Reached, ReportedPlaces, Reported
  <2>3. Picks(results'[n], order, Reached(n)') BY <1>1, <1>4, <2>2
  <2>4. \A y \in sent'[n] : \E j \in 1..index : y = order[j]
    <3>1. \A j \in 1..done : j \in 1..index BY <1>1
    <3>2. index \in 1..index /\ item = order[index] BY <1>1 DEF item
    <3> HIDE DEF order, index, done
    <3> QED BY <1>5, <1>7, <3>1, <3>2
  <2>5. rows[n].kind = "generated" =>
          \A i \in 1..Len(results[n]) :
            results[n][i].outcome \in {"failed", "dependency-not-met"}
              => results[n][i].item \in runners[n].blocked
    BY DEF RunRecords, Progress
  <2>6. done <= Len(order) BY <1>1, <1>2
  <2> HIDE DEF order, index, done
  <2> QED BY <1>1, <1>4, <1>6, <2>1, <2>3, <2>4, <2>5, <2>6 DEF Progress
<1>12. Untouched(n)' /\ AllRecorded(n)'
  <2>1. ~SettledByRunner(n)' /\ rows'[n].status # "absent"
    BY <1>1, <1>4 DEF SlotInv, SettledByRunner
  <2> QED BY <2>1 DEF Untouched, AllRecorded
<1> QED BY <1>5, <1>10, <1>11, <1>12 DEF RunRecords

\* A pause begins or ends.
LEMMA PauseRecords ==
  ASSUME NEW n \in RunIds, Types, SlotInv, RecordsTyped, RunRecords(n),
         (LoopPauses(n) /\ runners[n].phase = "loop") \/ PauseEnds(n)
  PROVE  RunRecords(n)' /\ RecordsTyped'
<1>1. /\ runners[n].phase \notin {"none", "sending"}
      /\ UNCHANGED <<rows, results, sent>>
      /\ runners'[n].order = runners[n].order /\ runners'[n].attempted = runners[n].attempted
      /\ runners'[n].index = runners[n].index /\ runners'[n].blocked = runners[n].blocked
      /\ runners'[n].phase \notin {"none", "sending"}
  <2>1. runners[n] \in Runner BY DEF Types
  <2>2. CASE LoopPauses(n) /\ runners[n].phase = "loop"
    <3>1. runners'[n] = [runners[n] EXCEPT !.phase = "pausing"] BY <2>2 DEF LoopPauses, Types
    <3> QED BY <2>1, <2>2, <3>1 DEF LoopPauses, Runner
  <2>3. CASE PauseEnds(n)
    <3>1. runners'[n] = [runners[n] EXCEPT !.phase = "loop", !.paused = TRUE]
      BY <2>3 DEF PauseEnds, Types
    <3> DEFINE q == [runners[n] EXCEPT !.phase = "loop"]
    <3>2. q \in Runner /\ q.phase = "loop" /\ q.order = runners[n].order
          /\ q.attempted = runners[n].attempted /\ q.index = runners[n].index
          /\ q.blocked = runners[n].blocked
      BY <2>1 DEF Runner
    <3>3. runners'[n] = [q EXCEPT !.paused = TRUE] BY <3>1
    <3> HIDE DEF q
    <3> QED BY <2>3, <3>2, <3>3 DEF PauseEnds, Runner
  <2> QED BY <2>2, <2>3
<1>2. RecordsTyped' BY <1>1 DEF RecordsTyped
<1>3. Progress(n)'
  <2>1. RunOrder(n, runners[n].order)' <=> RunOrder(n, runners[n].order) BY <1>1 DEF RunOrder
  <2>2. Reached(n)' = Reached(n) BY <1>1 DEF Reached, ReportedPlaces, Reported
  <2> QED BY <1>1, <2>1, <2>2 DEF RunRecords, Progress
<1>4. Untouched(n)' /\ AllRecorded(n)'
  <2>1. ~SettledByRunner(n)' /\ rows'[n].status # "absent"
    BY <1>1 DEF SlotInv, SettledByRunner
  <2> QED BY <2>1 DEF Untouched, AllRecorded
<1>5. Withheld(n)' BY <1>1 DEF RunRecords, Withheld
<1> QED BY <1>2, <1>3, <1>4, <1>5 DEF RunRecords

\* The last item is done with: nothing is left to record.
LEMMA EndRecords ==
  ASSUME NEW n \in RunIds, Types, SlotInv, RecordsTyped, RunRecords(n), runners[n].phase = "loop",
         LoopEnds(n)
  PROVE  RunRecords(n)' /\ RecordsTyped'
<1> DEFINE order == runners[n].order
<1>1. /\ order \in Seq(Items) /\ Len(order) \in Nat /\ runners[n].attempted \in Nat
      /\ runners[n].index = runners[n].attempted + 1 /\ runners[n].attempted <= Len(order)
      /\ RunOrder(n, order) /\ Picks(results[n], order, Reached(n))
  BY AtWork
<1>2. /\ runners[n].index > Len(order) /\ runners'[n] = Finished
      /\ UNCHANGED <<results, sent>> /\ settleRun(n, "completed", "none")
  BY DEF LoopEnds, end, Types
<1>3. /\ rows'[n].kind = rows[n].kind /\ rows'[n].status = "completed"
  BY <1>2, SettleRow DEF Types
<1>4. runners[n].attempted = Len(order) BY <1>1, <1>2
<1>5. Reached(n) = ReportedPlaces(n, order, 1) BY <1>1, <1>4 DEF Reached, ReportedPlaces
<1>6. AllRecorded(n)'
  <2>1. PICK o \in Seq(Items) : o = order BY <1>1
  <2>2. RunOrder(n, o)' BY <1>1, <1>3, <2>1 DEF RunOrder
  <2>3. ReportedPlaces(n, o, 1)' = ReportedPlaces(n, o, 1) BY <1>3, SamePlaces
  <2>4. Picks(results'[n], o, ReportedPlaces(n, o, 1)') BY <1>1, <1>2, <1>5, <2>1, <2>3
  <2> QED BY <2>2, <2>4 DEF AllRecorded
<1>7. Untouched(n)' BY <1>3 DEF Untouched
<1>8. Progress(n)' BY <1>2 DEF Progress, Finished
<1>9. Withheld(n)' BY <1>2, <1>3 DEF RunRecords, Withheld
<1>10. RecordsTyped' BY <1>2 DEF RecordsTyped
<1> QED BY <1>6, <1>7, <1>8, <1>9, <1>10 DEF RunRecords

\* What a step of one runner leaves alone.
Elsewhere(n) ==
  \A m \in RunIds \ {n} : /\ rows'[m] = rows[m] /\ runners'[m] = runners[m]
                          /\ results'[m] = results[m] /\ sent'[m] = sent[m]

LEMMA RunnerElsewhere ==
  ASSUME Types, RecordsTyped, NEW n \in RunIds, RunnerStep(n) PROVE Elsewhere(n)
<1> SUFFICES ASSUME NEW m \in RunIds \ {n}
             PROVE  /\ rows'[m] = rows[m] /\ runners'[m] = runners[m]
                    /\ results'[m] = results[m] /\ sent'[m] = sent[m]
  BY DEF Elsewhere
<1> USE DEF Types, RecordsTyped, end
<1>1. CASE RowGone(n) BY <1>1 DEF RowGone
<1>2. CASE catch(n) BY <1>2 DEF catch, appendNotAttempted, settleRun
<1>3. CASE LoopCancelled(n) BY <1>3 DEF LoopCancelled, appendNotAttempted, settleRun
<1>4. CASE LoopPauses(n) BY <1>4 DEF LoopPauses
<1>5. CASE LoopWithholds(n) BY <1>5 DEF LoopWithholds, appendResult
<1>6. CASE LoopSends(n) BY <1>6 DEF LoopSends
<1>7. CASE LoopEnds(n) BY <1>7 DEF LoopEnds, settleRun
<1>8. CASE PauseEnds(n) BY <1>8 DEF PauseEnds
<1>9. ASSUME NEW outcome \in Attempted, RequestAnswered(n, outcome), ~RowGone(n), ~catch(n)
      PROVE  /\ rows'[m] = rows[m] /\ runners'[m] = runners[m]
             /\ results'[m] = results[m] /\ sent'[m] = sent[m]
  <2>1. /\ \E q : runners' = [runners EXCEPT ![n] = q]
        /\ \/ \E R : results' = [results EXCEPT ![n] = R]
           \/ results' = results
        /\ UNCHANGED <<rows, sent>>
    BY <1>9 DEF RequestAnswered, appendResult
  <2> QED BY <2>1
<1> QED BY <1>1, <1>2, <1>3, <1>4, <1>5, <1>6, <1>7, <1>8, <1>9
    DEF RunnerStep, Loop, RequestRejected

\* A runner ends its run.
LEMMA AppendedRecords ==
  ASSUME NEW n \in RunIds, Types, SlotInv, RecordsTyped, RunRecords(n), runners[n].phase # "none",
         NEW reason \in {"cancelled", "run-ended-before-reached"},
         reason = "cancelled" => runners[n].phase # "sending",
         NEW status \in {"completed", "cancelled"}, NEW why \in {"none", "user-requested"},
         appendNotAttempted(n, runners[n].attempted + 1, reason), settleRun(n, status, why), end(n),
         UNCHANGED sent
  PROVE  RunRecords(n)' /\ RecordsTyped'
<1>1. PICK at \in InOrder(ReportedPlaces(n, runners[n].order, runners[n].attempted + 1)) :
        results' = [results EXCEPT ![n] =
          @ \o [i \in DOMAIN at |-> [item |-> runners[n].order[at[i]], outcome |-> reason]]]
  BY DEF appendNotAttempted
<1>2. rows'[n].kind = rows[n].kind /\ rows'[n].status # "absent" BY SettleRow DEF Types
<1>3. runners'[n].phase = "none" BY DEF end, Types, Finished
<1>4. results'[n] = results[n] \o [i \in DOMAIN at |-> [item |-> runners[n].order[at[i]],
                                                       outcome |-> reason]]
  BY <1>1 DEF RecordsTyped
<1>5. RunRecords(n)' /\ results'[n] \in Seq(Result) BY <1>2, <1>3, <1>4, SettledRecords
<1>6. RecordsTyped'
  <2>1. \A m \in RunIds : m # n => results'[m] = results[m] BY <1>1 DEF RecordsTyped
  <2>2. DOMAIN results' = RunIds /\ \E R : results' = [results EXCEPT ![n] = R]
    BY <1>1 DEF RecordsTyped
  <2> QED BY <1>5, <2>1, <2>2 DEF RecordsTyped
<1> QED BY <1>5, <1>6

LEMMA LoopRecords ==
  ASSUME NEW n \in RunIds, Types, SlotInv, RecordsTyped, RunRecords(n), Loop(n)
  PROVE  RunRecords(n)' /\ RecordsTyped'
<1> DEFINE r == runners[n]
           item == r.order[r.index]
<1>1. r \in Runner /\ r.phase = "loop" BY DEF Types, Loop
<1>2. r.index = r.attempted + 1 BY <1>1 DEF RunRecords, Progress
<1>3. CASE RowGone(n)
  <2>1. runners'[n].phase = "none" /\ UNCHANGED <<rows, results, sent>>
    BY <1>3 DEF RowGone, end, Types, Finished
  <2>2. RunRecords(n)' BY <2>1, RunFrame DEF SettledByRunner
  <2> QED BY <2>1, <2>2 DEF RecordsTyped
<1>4. CASE LoopCancelled(n)
  <2>1. /\ appendNotAttempted(n, r.attempted + 1, "cancelled") /\ UNCHANGED sent
        /\ settleRun(n, "cancelled", "user-requested") /\ end(n)
    BY <1>2, <1>4 DEF LoopCancelled
  <2> QED BY <1>1, <2>1, AppendedRecords
<1>5. CASE LoopPauses(n) BY <1>1, <1>5, PauseRecords
<1>6. CASE LoopWithholds(n)
  <2>1. /\ ReadyToSend(n) /\ unmet(n, item) # {} /\ appendResult(n, item, "dependency-not-met")
        /\ runners' = [runners EXCEPT ![n] = next(r, r.blocked \cup {item})]
        /\ UNCHANGED <<rows, sent>>
    BY <1>6 DEF LoopWithholds
  <2>2. Reported(n, item) BY <2>1 DEF unmet, Reported
  <2>3. r.index <= Len(r.order) BY <2>1 DEF ReadyToSend
  <2>4. item \in Items BY <1>1, <2>3, ItemOfOrder
  <2>5. r.blocked \cup {item} \in SUBSET Items BY <1>1, <2>4 DEF Runner
  <2>6. PICK x : x = item OBVIOUS
  <2>7. PICK b \in SUBSET Items : b = r.blocked \cup {item} BY <2>5
  <2>8. /\ x = runners[n].order[runners[n].index] /\ x \in b /\ runners[n].blocked \subseteq b
        /\ runners' = [runners EXCEPT ![n] = next(runners[n], b)]
        /\ Reported(n, x) /\ appendResult(n, x, "dependency-not-met")
    BY <2>1, <2>2, <2>6, <2>7
  <2>9. PICK outcome \in Attempted \cup {"dependency-not-met"} : outcome = "dependency-not-met"
    OBVIOUS
  <2>10. /\ runners[n].phase # "none" /\ runners[n].phase # "sending"
         /\ runners[n].index <= Len(runners[n].order) /\ UNCHANGED <<rows, sent>>
         /\ appendResult(n, x, outcome)
    BY <1>1, <2>1, <2>3, <2>8, <2>9
  <2> HIDE DEF item, r
  <2> QED BY <2>8, <2>9, <2>10, NextRecords
<1>7. CASE LoopSends(n) BY <1>1, <1>7, SendRecords
<1>8. CASE LoopEnds(n) BY <1>1, <1>8, EndRecords
<1> QED BY <1>3, <1>4, <1>5, <1>6, <1>7, <1>8 DEF Loop

LEMMA RunnerRecords ==
  ASSUME NEW n \in RunIds, Types, SlotInv, RecordsTyped, RunRecords(n), RunnerStep(n)
  PROVE  RunRecords(n)' /\ RecordsTyped'
<1> DEFINE r == runners[n]
           item == r.order[r.index]
<1>0. r \in Runner /\ WellFormed(r) BY DEF Types
<1>1. CASE Loop(n) BY <1>1, LoopRecords
<1>2. CASE PauseEnds(n) BY <1>2, PauseRecords
<1>3. CASE RowGone(n)
  <2>1. runners'[n].phase = "none" /\ UNCHANGED <<rows, results, sent>>
    BY <1>3 DEF RowGone, end, Types, Finished
  <2>2. RunRecords(n)' BY <2>1, RunFrame DEF SettledByRunner
  <2> QED BY <2>1, <2>2 DEF RecordsTyped
<1>4. CASE catch(n) /\ r.phase = "sending"
  <2>1. /\ appendNotAttempted(n, r.attempted + 1, "run-ended-before-reached") /\ UNCHANGED sent
        /\ settleRun(n, "completed", "none") /\ end(n)
    BY <1>4 DEF catch
  <2> QED BY <1>4, <2>1, AppendedRecords
<1>5. CASE RequestRejected(n) BY <1>3, <1>4, <1>5 DEF RequestRejected
<1>6. ASSUME NEW outcome \in Attempted, RequestAnswered(n, outcome), ~RowGone(n), ~catch(n)
      PROVE  RunRecords(n)' /\ RecordsTyped'
  <2> DEFINE blocked == IF isBlocking(outcome) /\ rows[n].kind = "generated" /\ Reported(n, item)
                        THEN r.blocked \cup {item} ELSE r.blocked
  <2>1. /\ r.phase = "sending" /\ runners' = [runners EXCEPT ![n] = next(r, blocked)]
        /\ UNCHANGED <<rows, sent>>
        /\ IF Reported(n, item) THEN appendResult(n, item, outcome) ELSE UNCHANGED results
    BY <1>6 DEF RequestAnswered
  <2>2. r.index <= Len(r.order) BY <1>0, <2>1 DEF WellFormed
  <2>3. item \in Items BY <1>0, <2>2, ItemOfOrder
  <2>4. /\ blocked \in SUBSET Items /\ r.blocked \subseteq blocked
        /\ Reported(n, item) /\ rows[n].kind = "generated"
             /\ outcome \in {"failed", "dependency-not-met"} => item \in blocked
    <3>1. outcome # "dependency-not-met" BY DEF Attempted
    <3> QED BY <1>0, <2>3, <3>1 DEF Runner, isBlocking
  <2>5. PICK b \in SUBSET Items : b = blocked BY <2>4
  <2>6. PICK x : x = item OBVIOUS
  <2> HIDE DEF blocked, item
  <2>7. x = runners[n].order[runners[n].index] BY <2>6 DEF item
  <2>8. outcome # "dependency-not-met" BY DEF Attempted
  <2>9. \/ /\ Reported(n, x) /\ appendResult(n, x, outcome)
           /\ rows[n].kind = "generated" /\ outcome \in {"failed", "dependency-not-met"}
                => x \in b
        \/ ~Reported(n, x) /\ results' = results
    BY <2>1, <2>4, <2>5, <2>6
  <2> QED BY <2>1, <2>2, <2>4, <2>5, <2>7, <2>8, <2>9, NextRecords
<1>7. ASSUME NEW outcome \in Attempted, RequestAnswered(n, outcome) PROVE r.phase = "sending"
  BY <1>7 DEF RequestAnswered
<1> QED BY <1>1, <1>2, <1>3, <1>4, <1>5, <1>6, <1>7 DEF RunnerStep

(* ------------------- the records of all the session's runs ------------- *)

\* The row of a run as its records see it: it starts, or it stays what it was to them.
RowKept(m) ==
  /\ rows'[m].kind = rows[m].kind
  /\ rows'[m].status = "absent" => rows[m].status = "absent"
  /\ rows[m].kind \in {"generated", "uploaded"} /\ SettledByRunner(m)' => SettledByRunner(m)

RowStarts(m) == rows[m].status = "absent" /\ rows'[m].status = "in-progress"

LEMMA OthersKeep ==
  ASSUME Types, Types', SlotInv, RecordsInv, UNCHANGED <<results, sent>>,
         \A m \in RunIds : \/ RowKept(m) /\ (runners'[m] = runners[m] \/ runners'[m].phase = "none")
                           \/ RowStarts(m) /\ runners'[m] = runners[m]
  PROVE  RecordsInv'
<1>1. RecordsTyped' BY DEF RecordsInv, RecordsTyped
<1>2. ASSUME NEW m \in RunIds PROVE RunRecords(m)'
  <2>0. RunRecords(m) BY DEF RecordsInv
  <2>1. CASE RowKept(m) /\ (runners'[m] = runners[m] \/ runners'[m].phase = "none")
    BY <2>0, <2>1, RunFrame DEF RowKept
  <2>2. CASE RowStarts(m) /\ runners'[m] = runners[m]
    <3>1. runners'[m].phase = "none" BY <2>2 DEF SlotInv, RowStarts
    <3>2. ~SettledByRunner(m)' /\ rows'[m].status # "absent" /\ rows[m].status = "absent"
      BY <2>2 DEF RowStarts, SettledByRunner
    <3>3. runners' \in [RunIds -> Runner] BY DEF Types
    <3> QED BY <2>0, <3>1, <3>2, <3>3, RunFresh
  <2> QED BY <2>1, <2>2
<1> QED BY <1>1, <1>2 DEF RecordsInv

\* A row settles that no runner of requests works on, or is asked to.
LEMMA SettlesElsewhere ==
  ASSUME Types, NEW n \in RunIds, rows[n].kind \notin {"generated", "uploaded"},
         rows[n].status = "in-progress",
         NEW status \in {"completed", "cancelled", "failed"},
         NEW reason \in {"none", "user-requested"}, settleRun(n, status, reason)
  PROVE  \A m \in RunIds : RowKept(m)
<1>1. /\ \A m \in RunIds : m # n => rows'[m] = rows[m]
      /\ rows'[n].kind = rows[n].kind /\ rows'[n].status = status
  BY SettleRow DEF Types
<1> QED BY <1>1 DEF RowKept, SettledByRunner

LEMMA CancelElsewhere ==
  ASSUME Types, NEW n \in RunIds, requestCancel(n) PROVE \A m \in RunIds : RowKept(m)
<1>1. /\ \A m \in RunIds : m # n => rows'[m] = rows[m]
      /\ rows'[n].kind = rows[n].kind /\ rows'[n].status = rows[n].status
      /\ rows'[n].reason = rows[n].reason
  BY CancelRow DEF Types
<1> QED BY <1>1 DEF RowKept, SettledByRunner

LEMMA StartsElsewhere ==
  ASSUME Types, NEW n \in RunIds, NEW kind \in Kinds, NextRun(n), createRun(n, kind)
  PROVE  RowStarts(n) /\ \A m \in RunIds : m # n => RowKept(m)
<1>1. /\ \A m \in RunIds : m # n => rows'[m] = rows[m]
      /\ rows'[n].status = "in-progress"
  BY CreateRow DEF Types
<1> QED BY <1>1 DEF RowKept, RowStarts, SettledByRunner, NextRun

LEMMA BeginRecords ==
  ASSUME Types, Types', SlotInv, RecordsInv, NEW n \in RunIds,
         NEW kind \in {"generated", "uploaded"}, NEW order \in Seq(Items), NEW scripts, NextRun(n),
         begin(n, kind, order, scripts), kind = "generated" => order \in executionOrder,
         kind = "uploaded" => order \in Orders
  PROVE  RecordsInv'
<1>1. PICK delay \in BOOLEAN :
        runners' = [runners EXCEPT ![n] =
          [Finished EXCEPT !.phase = "loop", !.order = order, !.delay = delay, !.scripts = scripts,
                           !.collection = IF kind = "uploaded" THEN coll.id ELSE 0]]
  BY DEF begin
<1>2. /\ runners'[n].order = order /\ runners'[n].index = 1 /\ runners'[n].attempted = 0
      /\ \A m \in RunIds : m # n => runners'[m] = runners[m]
  BY <1>1 DEF Finished, Types
<1>3. UNCHANGED <<results, sent>> /\ createRun(n, kind) BY DEF begin
<1>4. /\ RowStarts(n) /\ \A m \in RunIds : m # n => RowKept(m) BY <1>3, StartsElsewhere DEF Kinds
<1>5. rows'[n].kind = kind BY <1>3, CreateRow DEF Types, Kinds
<1>6. RecordsTyped' BY <1>3 DEF RecordsInv, RecordsTyped
<1>7. RunRecords(n)'
  <2>1. RunOrder(n, runners[n].order)' BY <1>2, <1>5 DEF RunOrder
  <2>2. ~SettledByRunner(n)' /\ rows'[n].status # "absent" /\ rows[n].status = "absent"
    BY <1>4 DEF RowStarts, SettledByRunner
  <2>3. runners' \in [RunIds -> Runner] BY DEF Types
  <2>4. RunRecords(n) BY DEF RecordsInv
  <2> QED BY <1>2, <1>3, <2>1, <2>2, <2>3, <2>4, RunFresh
<1>8. ASSUME NEW m \in RunIds, m # n PROVE RunRecords(m)'
  <2>1. RunRecords(m) BY DEF RecordsInv
  <2> QED BY <1>2, <1>3, <1>4, <1>8, <2>1, RunFrame DEF RowKept
<1> QED BY <1>6, <1>7, <1>8 DEF RecordsInv

LEMMA CollectionRecords ==
  ASSUME Inv, Inv', RecordsInv, CollectionNext PROVE RecordsInv'
<1>0. /\ Types /\ Types' /\ SlotInv /\ RecordsTyped /\ \A m \in RunIds : RunRecords(m)
  BY DEF Inv, RecordsInv
<1>1. ASSUME UNCHANGED <<rows, runners, results, sent>> PROVE RecordsInv'
  <2>1. \A m \in RunIds : RowKept(m) /\ runners'[m] = runners[m]
    BY <1>1 DEF RowKept, SettledByRunner
  <2> QED BY <1>0, <1>1, <2>1, OthersKeep
<1>2. ASSUME NEW n \in RunIds, StartGenerated(n) PROVE RecordsInv'
  <2>1. PICK order \in executionOrder : begin(n, "generated", order, "none")
    BY <1>2 DEF StartGenerated
  <2> QED BY <1>0, <1>2, <2>1, OrdersTyped, BeginRecords DEF StartGenerated
<1>3. ASSUME NEW n \in RunIds, NEW claimed \in Scripts \cup {"none"}, NEW yes \in BOOLEAN,
             NEW risky \in BOOLEAN, NEW order \in Orders,
             StartUploaded(n, yes, claimed, risky, order)
      PROVE  RecordsInv'
  <2>1. NextRun(n) /\ order \in Seq(Items) BY <1>3, CollectionAssumption DEF StartUploaded
  <2>2. \/ begin(n, "uploaded", order, coll.scripts)
        \/ UNCHANGED <<rows, runners, results, sent>>
    BY <1>3 DEF StartUploaded
  <2>3. PICK scripts : scripts = coll.scripts OBVIOUS
  <2> QED BY <1>0, <1>1, <2>1, <2>2, <2>3, BeginRecords
<1>4. ASSUME NEW n \in RunIds, CancelCollectionRun(n) PROVE RecordsInv'
  <2>1. requestCancel(n) /\ UNCHANGED <<runners, results, sent>>
    BY <1>4 DEF CancelCollectionRun, collectionVars
  <2>2. \A m \in RunIds : RowKept(m) /\ runners'[m] = runners[m]
    BY <1>0, <2>1, CancelElsewhere
  <2> QED BY <1>0, <2>1, <2>2, OthersKeep
<1>5. ASSUME NEW n \in RunIds, RunnerStep(n) PROVE RecordsInv'
  <2>1. RunRecords(n)' /\ RecordsTyped' BY <1>0, <1>5, RunnerRecords
  <2>2. ASSUME NEW m \in RunIds, m # n PROVE RunRecords(m)'
    <3>1. /\ rows'[m] = rows[m] /\ runners'[m] = runners[m]
          /\ results'[m] = results[m] /\ sent'[m] = sent[m]
      BY <1>0, <1>5, <2>2, RunnerElsewhere DEF Elsewhere
    <3> QED BY <1>0, <3>1, RunFrame DEF SettledByRunner
  <2> QED BY <2>1, <2>2 DEF RecordsInv
<1>6. ASSUME NEW scripts \in Scripts, UploadCollection(scripts) \/ EditCollection(scripts)
      PROVE  RecordsInv'
  BY <1>1, <1>6 DEF UploadCollection, EditCollection
<1>7. CASE RemoveCollection BY <1>1, <1>7 DEF RemoveCollection
<1> QED BY <1>2, <1>3, <1>4, <1>5, <1>6, <1>7 DEF CollectionNext

LEMMA K6Records ==
  ASSUME Inv, Inv', RecordsInv, K6Next, UNCHANGED collectionVars PROVE RecordsInv'
<1>0. Types /\ Types' /\ SlotInv /\ UNCHANGED <<runners, results, sent>>
  BY DEF Inv, collectionVars
<1>1. ASSUME \A m \in RunIds : RowKept(m) \/ RowStarts(m) PROVE RecordsInv'
  BY <1>0, <1>1, OthersKeep
<1>2. ASSUME UNCHANGED rows PROVE RecordsInv'
  <2>1. \A m \in RunIds : RowKept(m) BY <1>2 DEF RowKept, SettledByRunner
  <2> QED BY <1>1, <2>1
<1>3. ASSUME NEW n \in RunIds, RunFailsToStart(n) \/ SpawnFails(n) \/ ChildExits(n)
      PROVE  RecordsInv'
  <2>1. rows[n].status = "in-progress" /\ rows[n].kind \notin {"generated", "uploaded"}
    BY <1>0, <1>3 DEF RunFailsToStart, SpawnFails, ChildExits, SlotInv, InProgress, K6Kinds
  <2>2. CASE settleRun(n, "failed", "none")
    <3>1. \A m \in RunIds : RowKept(m) BY <1>0, <2>1, <2>2, SettlesElsewhere
    <3> QED BY <1>1, <3>1
  <2>3. CASE ChildExits(n)
    <3>1. PICK code \in ExitCodes, measured \in BOOLEAN, lastLines \in BOOLEAN :
            LET how == settlementOf(n, proc[n].unreadable \/ lastLines, code, measured)
            IN settleRun(n, how[1], how[2])
      BY <2>3 DEF ChildExits
    <3> DEFINE how == settlementOf(n, proc[n].unreadable \/ lastLines, code, measured)
    <3>2. /\ how[1] \in {"completed", "cancelled", "failed"}
          /\ how[2] \in {"none", "user-requested"}
      BY DEF settlementOf, settledStatusOf
    <3>3. settleRun(n, how[1], how[2]) BY <3>1
    <3> HIDE DEF how
    <3>4. PICK a \in {"completed", "cancelled", "failed"}, b \in {"none", "user-requested"} :
            settleRun(n, a, b)
      BY <3>2, <3>3
    <3>5. \A m \in RunIds : RowKept(m) BY <1>0, <2>1, <3>4, SettlesElsewhere
    <3> QED BY <1>1, <3>5
  <2> QED BY <1>3, <2>2, <2>3 DEF RunFailsToStart, SpawnFails
<1>4. ASSUME NEW k \in K6Kinds, NEW n \in RunIds, StartResumes(k, n) PROVE RecordsInv'
  <2>1. RowStarts(n) /\ \A m \in RunIds : m # n => RowKept(m)
    BY <1>0, <1>4, StartsElsewhere DEF StartResumes, K6Kinds, Kinds
  <2> QED BY <1>1, <2>1
<1>5. ASSUME NEW n \in RunIds, CancelK6Run(n) PROVE RecordsInv'
  <2>1. \A m \in RunIds : RowKept(m) BY <1>0, <1>5, CancelElsewhere DEF CancelK6Run
  <2> QED BY <1>1, <2>1
<1>6. ASSUME NEW n \in RunIds, K6Spawns(n) \/ MetricsUnreadable(n) \/ OrphanExits(n)
      PROVE  RecordsInv'
  BY <1>2, <1>6 DEF K6Spawns, MetricsUnreadable, OrphanExits
<1>7. ASSUME NEW k \in K6Kinds,
             \/ \E text \in Texts(k) : SaveDocument(k, text)
             \/ MakeReady(k) \/ DeleteDocument(k) \/ StartReads(k) \/ StartRefused(k)
      PROVE  RecordsInv'
  BY <1>2, <1>7 DEF SaveDocument, MakeReady, DeleteDocument, StartReads, StartRefused
<1> QED BY <1>3, <1>4, <1>5, <1>6, <1>7 DEF K6Next, K6Step

LEMMA InitRecords == Init => RecordsInv
<1> SUFFICES ASSUME Init PROVE RecordsInv OBVIOUS
<1>1. /\ results = [n \in RunIds |-> <<>>] /\ sent = [n \in RunIds |-> {}]
      /\ \A n \in RunIds : runners[n] = Finished /\ rows[n] = NoRow
  BY DEF Init, CollectionInit, SlotInit
<1>2. RecordsTyped BY <1>1 DEF RecordsTyped
<1>3. ASSUME NEW n \in RunIds PROVE RunRecords(n)
  <2>1. Progress(n) BY <1>1 DEF Progress, Finished
  <2>2. Untouched(n) /\ Withheld(n) BY <1>1 DEF Untouched, Withheld
  <2>3. AllRecorded(n) BY <1>1 DEF AllRecorded, NoRow
  <2> QED BY <2>1, <2>2, <2>3 DEF RunRecords
<1> QED BY <1>2, <1>3 DEF RecordsInv

LEMMA NextRecordsInv == Inv /\ Inv' /\ RecordsInv /\ [Next]_vars => RecordsInv'
<1> SUFFICES ASSUME Inv, Inv', RecordsInv, [Next]_vars PROVE RecordsInv' OBVIOUS
<1>0. Types /\ Types' /\ SlotInv BY DEF Inv
<1>1. CASE CollectionNext BY <1>1, CollectionRecords
<1>2. CASE K6Next /\ UNCHANGED <<collectionVars, lab>> BY <1>2, K6Records
<1>3. ASSUME NEW n \in RunIds, StartSecurity(n) PROVE RecordsInv'
  <2>1. RowStarts(n) /\ \A m \in RunIds : m # n => RowKept(m)
    BY <1>0, <1>3, StartsElsewhere DEF StartSecurity, Kinds
  <2>2. UNCHANGED <<runners, results, sent>> BY <1>3 DEF StartSecurity, collectionVars
  <2>3. \A m \in RunIds : (RowKept(m) \/ RowStarts(m)) /\ runners'[m] = runners[m]
    BY <2>1, <2>2
  <2> QED BY <1>0, <2>2, <2>3, OthersKeep
<1>4. ASSUME NEW n \in RunIds, SecurityRunEnds(n) PROVE RecordsInv'
  <2>1. rows[n].status = "in-progress" /\ rows[n].kind = "security"
    BY <1>0, <1>4 DEF SecurityRunEnds, SlotInv, InProgress
  <2>2. PICK how \in {<<"completed", "none">>, <<"failed", "none">>,
                      <<"cancelled", "user-requested">>} : settleRun(n, how[1], how[2])
    BY <1>4 DEF SecurityRunEnds
  <2>3. \A m \in RunIds : RowKept(m) BY <1>0, <2>1, <2>2, SettlesElsewhere
  <2>4. UNCHANGED <<runners, results, sent>> BY <1>4 DEF SecurityRunEnds, collectionVars
  <2> QED BY <1>0, <2>3, <2>4, OthersKeep
<1>5. CASE SessionExpires
  <2>1. UNCHANGED <<runners, results, sent>> BY <1>5 DEF SessionExpires
  <2>2. ASSUME NEW m \in RunIds PROVE RowKept(m)
    <3>1. rows'[m] = IF rows[m].status # "absent" /\ rows[m].kind # "security"
                     THEN [NoRow EXCEPT !.kind = rows[m].kind, !.status = "deleted"] ELSE rows[m]
      BY <1>5 DEF SessionExpires, deleteBySession
    <3>2. CASE rows[m].status # "absent" /\ rows[m].kind # "security"
      <4>1. rows'[m].kind = rows[m].kind /\ rows'[m].status = "deleted" BY <3>1, <3>2 DEF NoRow
      <4> QED BY <4>1 DEF RowKept, SettledByRunner
    <3>3. CASE rows'[m] = rows[m] BY <3>3 DEF RowKept, SettledByRunner
    <3> QED BY <3>1, <3>2, <3>3
  <2> QED BY <1>0, <2>1, <2>2, OthersKeep
<1>6. CASE Restart
  <2>1. UNCHANGED <<results, sent>> /\ \A m \in RunIds : runners'[m].phase = "none"
    BY <1>6 DEF Restart, Finished
  <2>2. ASSUME NEW m \in RunIds PROVE RowKept(m)
    <3>1. rows'[m] = IF InProgress(m)
                     THEN [rows[m] EXCEPT !.status = "cancelled", !.reason = "backend-restart"]
                     ELSE rows[m]
      BY <1>6 DEF Restart, markInterruptedRunsCancelled
    <3>2. CASE InProgress(m)
      <4>1. rows[m] \in Row BY <1>0 DEF Types
      <4>2. rows'[m].kind = rows[m].kind /\ rows'[m].status = "cancelled"
            /\ rows'[m].reason = "backend-restart"
        BY <3>1, <3>2, <4>1 DEF Row
      <4> QED BY <4>2 DEF RowKept, SettledByRunner
    <3>3. CASE ~InProgress(m) BY <3>1, <3>3 DEF RowKept, SettledByRunner
    <3> QED BY <3>2, <3>3
  <2> QED BY <1>0, <2>1, <2>2, OthersKeep
<1>7. CASE UNCHANGED vars
  <2>1. UNCHANGED <<runners, results, sent>> /\ \A m \in RunIds : RowKept(m)
    BY <1>7 DEF vars, collectionVars, RowKept, SettledByRunner
  <2> QED BY <1>0, <2>1, OthersKeep
<1> QED BY <1>1, <1>2, <1>3, <1>4, <1>5, <1>6, <1>7 DEF Next

LEMMA SpecRecords == Spec => [](Inv /\ RecordsInv)
<1>1. Inv /\ RecordsInv /\ [Next]_vars => (Inv /\ RecordsInv)' BY NextInv, NextRecordsInv
<1> QED BY <1>1, InitInv, InitRecords, PTL DEF Spec

\* However a run ends that its runner settles, every request of its order has its one result, in
\* order (appendResult, appendNotAttempted, the loops' returns and the catch block).
THEOREM NoRequestUnaccounted == Spec => []EveryRequestRecorded
<1>1. RecordsInv => EveryRequestRecorded
  <2> SUFFICES ASSUME RecordsInv, NEW n \in RunIds, rows[n].kind \in {"generated", "uploaded"},
                      SettledByRunner(n)
               PROVE  \E order \in IF rows[n].kind = "generated" THEN executionOrder ELSE Orders :
                        \E at \in InOrder(ReportedPlaces(n, order, 1)) :
                          RecordedItems(n) = [i \in DOMAIN at |-> order[at[i]]]
    BY DEF EveryRequestRecorded
  <2>1. PICK order \in Seq(Items) :
          RunOrder(n, order) /\ Picks(results[n], order, ReportedPlaces(n, order, 1))
    BY DEF RecordsInv, RunRecords, AllRecorded
  <2>2. PICK at \in InOrder(ReportedPlaces(n, order, 1)) :
          /\ Len(results[n]) = Cardinality(ReportedPlaces(n, order, 1))
          /\ \A i \in 1..Len(results[n]) : results[n][i].item = order[at[i]]
    BY <2>1 DEF Picks
  <2>3. DOMAIN at = 1..Len(results[n]) BY <2>2 DEF InOrder
  <2>4. results[n] \in Seq(Result) BY DEF RecordsInv, RecordsTyped
  <2>5. DOMAIN results[n] = 1..Len(results[n]) BY <2>4
  <2>6. RecordedItems(n) = [i \in DOMAIN at |-> order[at[i]]]
    BY <2>2, <2>3, <2>5 DEF RecordedItems
  <2>7. order \in IF rows[n].kind = "generated" THEN executionOrder ELSE Orders
    BY <2>1 DEF RunOrder
  <2> QED BY <2>2, <2>6, <2>7
<1> QED BY <1>1, SpecRecords, PTL

\* What is recorded as withheld or cancelled was not sent, and nothing is sent that needs it (the
\* blocked set of runExecution, over the order executionOrder gives).
THEOREM WithheldMeansNotSent == Spec => []WithheldNotSent
<1>1. RecordsInv => WithheldNotSent
  <2> SUFFICES ASSUME RecordsInv, NEW n \in RunIds, NEW i \in DOMAIN results[n]
               PROVE  Sound(rows[n].kind, results[n][i], sent[n])
    BY DEF WithheldNotSent, Sound
  <2>1. results[n] \in Seq(Result) BY DEF RecordsInv, RecordsTyped
  <2>2. i \in 1..Len(results[n]) BY <2>1
  <2> QED BY <2>2 DEF RecordsInv, RunRecords, Withheld
<1> QED BY <1>1, SpecRecords, PTL

\* The cancel flag is read again after every pause and before every request (runExecution,
\* runUploadedCollectionExecution).
THEOREM CancelStopsSending == Spec => NothingSentAfterCancel
<1>1. Inv /\ RecordsInv /\ [Next]_vars
        => [ \A n \in RunIds : rows[n].cancel => sent'[n] = sent[n] ]_<<rows, sent>>
  <2> SUFFICES ASSUME Inv, RecordsInv, [Next]_vars, NEW n \in RunIds, rows[n].cancel
               PROVE  sent'[n] = sent[n]
    OBVIOUS
  <2>0. sent \in [RunIds -> SUBSET Items] BY DEF RecordsInv, RecordsTyped
  <2>1. CASE CollectionNext
    <3>1. ASSUME NEW m \in RunIds, RunnerStep(m) PROVE sent'[n] = sent[n]
      <4>1. CASE LoopSends(m)
        <5>1. m # n BY <4>1 DEF LoopSends, ReadyToSend
        <5> QED BY <2>0, <4>1, <5>1 DEF LoopSends
      <4>2. CASE UNCHANGED sent BY <4>2
      <4> QED BY <3>1, <4>1, <4>2
          DEF RunnerStep, Loop, RowGone, catch, LoopCancelled, LoopPauses, LoopWithholds, LoopEnds,
              PauseEnds, RequestRejected, RequestAnswered
    <3>2. ASSUME NEW m \in RunIds, StartGenerated(m) \/ CancelCollectionRun(m) PROVE UNCHANGED sent
      BY <3>2 DEF StartGenerated, begin, CancelCollectionRun, collectionVars
    <3>3. ASSUME NEW m \in RunIds, NEW claimed, NEW yes, NEW risky, NEW order,
                 StartUploaded(m, yes, claimed, risky, order)
          PROVE  UNCHANGED sent
      BY <3>3 DEF StartUploaded, begin
    <3>4. ASSUME (\E scripts \in Scripts : UploadCollection(scripts) \/ EditCollection(scripts))
                 \/ RemoveCollection
          PROVE  UNCHANGED sent
      BY <3>4 DEF UploadCollection, EditCollection, RemoveCollection
    <3> QED BY <2>1, <3>1, <3>2, <3>3, <3>4 DEF CollectionNext
  <2>2. CASE ~CollectionNext
    BY <2>2 DEF Next, StartSecurity, SecurityRunEnds, SessionExpires, Restart, vars, collectionVars
  <2> QED BY <2>1, <2>2
<1> QED BY <1>1, SpecRecords, PTL DEF Spec, NothingSentAfterCancel
=============================================================================
