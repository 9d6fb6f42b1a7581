----------------------- MODULE DependencyWorkflowsProofs -----------------------
(***************************************************************************)
(* Theorems about DependencyWorkflows: for any operations, relationships,  *)
(* hints and suggestions, the relationships kept for workflows can be put  *)
(* in one order, and those withheld from them have a cycle to show for it. *)
(*                                                                         *)
(* Both rest on what the removal of operations counts: what remains of an  *)
(* operation's in-degree is the number of its producers not yet removed    *)
(* (Counted), an operation is queued exactly when that is none             *)
(* (ProducersFirst, ReadyIsQueued), and so the relationships that start at *)
(* removed operations never close a cycle (Ordered).                       *)
(*                                                                         *)
(* From the same order: a path along kept relationships never returns, so  *)
(* a visit goes on with every relationship that starts where it is         *)
(* (NoReturn), and every relationship found is in a workflow, offered, or  *)
(* in a cycle finding (PathsInv).                                          *)
(***************************************************************************)
EXTENDS DependencyWorkflows, FiniteSetTheorems, TLAPS

Started == { p \in resolved : Producer[p] \in removed }

Types ==
  /\ resolved \subseteq Pairs
  /\ queue \subseteq Operations /\ removed \subseteq Operations
  /\ remainingInDegree \in [Operations -> Int]
  /\ phase \in {"matched", "hinted", "merged"} => removed = {}
  /\ Split => queue = {}
Counted ==
  \A o \in Operations \ removed :
    remainingInDegree[o] = Cardinality(incoming(resolved, o) \ removed)
ProducersFirst ==
  /\ queue \cap removed = {}
  /\ \A o \in queue \cup removed : incoming(resolved, o) \subseteq removed
ReadyIsQueued ==
  \A o \in nodes(resolved) \ removed : incoming(resolved, o) \subseteq removed => o \in queue
Ordered ==
  \A selection \in SUBSET Started : selection # {} =>
    \E p \in selection : \A q \in selection : Consumer[q] # Producer[p]
Inv == Types /\ Counted /\ ProducersFirst /\ ReadyIsQueued /\ Ordered

-----------------------------------------------------------------------------
(* The producers of an operation *)

\* What the lemmas use of the constants.
LEMMA EndsAreOperations ==
  /\ IsFiniteSet(Operations)
  /\ Producer \in [Pairs -> Operations] /\ Consumer \in [Pairs -> Operations]
BY AnalysisAssumption, Zenon DEF AnalysisAssumption

\* The producers of an operation are finitely many operations (the edges of buildDependencyGraph).
LEMMA IncomingFinite ==
  ASSUME NEW chosen \in SUBSET Pairs, NEW o
  PROVE  /\ incoming(chosen, o) \subseteq Operations
         /\ IsFiniteSet(incoming(chosen, o))
         /\ \A done : IsFiniteSet(incoming(chosen, o) \ done)
<1>1. incoming(chosen, o) \subseteq Operations
  BY EndsAreOperations DEF incoming
<1>2. IsFiniteSet(incoming(chosen, o))
  BY <1>1, EndsAreOperations, FS_Subset
<1>3. \A done : IsFiniteSet(incoming(chosen, o) \ done)
  BY <1>2, FS_Subset
<1> QED
  BY <1>1, <1>2, <1>3

\* The nodes of the graph are operations.
LEMMA NodesAreOperations ==
  ASSUME NEW chosen \in SUBSET Pairs
  PROVE  nodes(chosen) \subseteq Operations
BY EndsAreOperations DEF nodes

\* `outgoing` and `incoming` are two views of the same edges.
LEMMA OutgoingIncoming ==
  ASSUME NEW o, NEW n
  PROVE  n \in outgoing(o) <=> o \in incoming(resolved, n)
BY DEF outgoing, incoming

-----------------------------------------------------------------------------
(* Steps *)

\* Before the graph is built there is nothing in it.
LEMMA InitInv == Init => Inv
<1> SUFFICES ASSUME Init PROVE Inv
  OBVIOUS
<1>1. \A o : incoming(resolved, o) = {}
  BY DEF Init, incoming
<1>2. nodes(resolved) = {} /\ Started = {}
  BY DEF Init, nodes, Started
<1>3. Types
  BY DEF Init, Types, Split
<1>4. Counted
  BY <1>1, FS_EmptySet DEF Init, Counted
<1>5. ProducersFirst /\ ReadyIsQueued /\ Ordered
  BY <1>2 DEF Init, ProducersFirst, ReadyIsQueued, Ordered
<1> QED
  BY <1>3, <1>4, <1>5 DEF Inv

\* Steps that leave the graph alone.
LEMMA FrameInv ==
  ASSUME Inv, UNCHANGED graphVars,
         phase' \in {"matched", "hinted", "merged"} => phase \in {"matched", "hinted", "merged"},
         Split' => queue = {}
  PROVE  Inv'
<1>1. UNCHANGED <<resolved, remainingInDegree, queue, removed>>
  BY DEF graphVars
<1>2. Types'
  BY <1>1 DEF Inv, Types, Split
<1>3. Counted' /\ ProducersFirst' /\ ReadyIsQueued' /\ Ordered'
  BY <1>1 DEF Inv, Counted, ProducersFirst, ReadyIsQueued, Ordered, Started, incoming, nodes
<1> QED
  BY <1>2, <1>3 DEF Inv

\* The graph that is built: an operation is queued when no relationship leads to it.
LEMMA BuildInv ==
  ASSUME Inv, buildDependencyGraph
  PROVE  Inv'
<1>1. /\ phase' = "ordering" /\ removed = {} /\ removed' = {}
      /\ resolved' \subseteq Pairs
      /\ remainingInDegree' = [o \in Operations |-> inDegree(resolved', o)]
      /\ queue' = { o \in nodes(resolved') : inDegree(resolved', o) = 0 }
  BY DEF buildDependencyGraph, Inv, Types, resolveProducerDisambiguation, eligible
<1>2. \A o : /\ IsFiniteSet(incoming(resolved', o))
             /\ inDegree(resolved', o) \in Nat
             /\ inDegree(resolved', o) = 0 <=> incoming(resolved', o) = {}
  BY <1>1, IncomingFinite, FS_CardinalityType, FS_EmptySet DEF inDegree
<1>3. Types'
  BY <1>1, <1>2, NodesAreOperations DEF Types, Split
<1>4. Counted'
  <2> SUFFICES ASSUME NEW o \in Operations
               PROVE  remainingInDegree'[o] = Cardinality(incoming(resolved', o) \ {})
    BY <1>1 DEF Counted
  <2>1. incoming(resolved', o) \ {} = incoming(resolved', o)
    OBVIOUS
  <2> QED
    BY <1>1, <2>1 DEF inDegree
<1>5. ProducersFirst' /\ ReadyIsQueued'
  BY <1>1, <1>2 DEF ProducersFirst, ReadyIsQueued
<1>6. Ordered'
  BY <1>1 DEF Ordered, Started
<1> QED
  BY <1>3, <1>4, <1>5, <1>6 DEF Inv

\* An operation is removed: it is one producer less for each operation it feeds.
LEMMA RemoveInv ==
  ASSUME Inv, NEW o \in Operations, removeOperation(o)
  PROVE  Inv'
<1> DEFINE freed == { n \in outgoing(o) \ (removed \cup {o}) : remainingInDegree[n] = 1 }
<1>1. /\ phase = "ordering" /\ phase' = "ordering" /\ resolved' = resolved
      /\ o \in queue /\ o \notin removed
      /\ removed' = removed \cup {o} /\ queue' = (queue \ {o}) \cup freed
      /\ remainingInDegree' = [n \in Operations |->
           IF n \in outgoing(o) \ removed' THEN remainingInDegree[n] - 1 ELSE remainingInDegree[n]]
  BY DEF removeOperation, Inv, ProducersFirst
<1>2. resolved \in SUBSET Pairs /\ remainingInDegree \in [Operations -> Int]
  BY DEF Inv, Types
<1>3. incoming(resolved, o) \subseteq removed
  BY <1>1 DEF Inv, ProducersFirst
<1>4. outgoing(o) \subseteq Operations
  BY <1>2, EndsAreOperations DEF outgoing
<1>5. ASSUME NEW n \in Operations, n \notin removed'
      PROVE  /\ remainingInDegree[n] \in Nat
             /\ remainingInDegree[n] = Cardinality(incoming(resolved, n) \ removed)
             /\ Cardinality(incoming(resolved, n) \ removed') =
                  IF n \in outgoing(o) THEN remainingInDegree[n] - 1 ELSE remainingInDegree[n]
             /\ IsFiniteSet(incoming(resolved, n) \ removed')
  <2> DEFINE left == incoming(resolved, n) \ removed
  <2>1. remainingInDegree[n] = Cardinality(left)
    BY <1>1, <1>5 DEF Inv, Counted
  <2>2. IsFiniteSet(left) /\ IsFiniteSet(incoming(resolved, n) \ removed')
    BY <1>2, IncomingFinite
  <2>3. incoming(resolved, n) \ removed' = left \ {o}
    BY <1>1
  <2>4. o \in left <=> n \in outgoing(o)
    BY <1>1, OutgoingIncoming
  <2>5. Cardinality(left \ {o}) = IF o \in left THEN Cardinality(left) - 1 ELSE Cardinality(left)
    BY <2>2, FS_RemoveElement
  <2>6. Cardinality(left) \in Nat
    BY <2>2, FS_CardinalityType
  <2> QED
    BY <2>1, <2>2, <2>3, <2>4, <2>5, <2>6
<1>6. Types'
  <2>1. queue' \subseteq Operations /\ removed' \subseteq Operations
    BY <1>1, <1>4 DEF Inv, Types
  <2>2. remainingInDegree' \in [Operations -> Int]
    BY <1>1, <1>2
  <2> QED
    BY <1>1, <1>2, <2>1, <2>2 DEF Types, Split
<1>7. Counted'
  <2> SUFFICES ASSUME NEW n \in Operations, n \notin removed'
               PROVE  remainingInDegree'[n] = Cardinality(incoming(resolved, n) \ removed')
    BY <1>1 DEF Counted
  <2> QED
    BY <1>1, <1>5
<1>8. ProducersFirst'
  <2>1. queue' \cap removed' = {}
    BY <1>1 DEF Inv, ProducersFirst
  <2>2. ASSUME NEW n \in queue' \cup removed'
        PROVE  incoming(resolved, n) \subseteq removed'
    <3>1. CASE n \in queue \cup removed
      BY <1>1, <3>1 DEF Inv, ProducersFirst
    <3>2. CASE n \in freed
      <4>1. n \in Operations /\ n \notin removed' /\ n \in outgoing(o) /\ remainingInDegree[n] = 1
        BY <1>1, <1>4, <3>2
      <4>2. Cardinality(incoming(resolved, n) \ removed') = remainingInDegree[n] - 1
        BY <4>1, <1>5, Zenon
      <4>3. Cardinality(incoming(resolved, n) \ removed') = 0
        BY <4>1, <4>2
      <4>4. incoming(resolved, n) \ removed' = {}
        BY <4>1, <4>3, <1>5, FS_EmptySet
      <4> QED
        BY <4>4
    <3> QED
      BY <1>1, <3>1, <3>2
  <2> QED
    BY <1>1, <2>1, <2>2 DEF ProducersFirst
<1>9. ReadyIsQueued'
  <2> SUFFICES ASSUME NEW n \in nodes(resolved), n \notin removed',
                      incoming(resolved, n) \subseteq removed'
               PROVE  n \in queue'
    BY <1>1 DEF ReadyIsQueued
  <2>1. n \in Operations
    BY <1>2, NodesAreOperations
  <2>2. CASE n \in outgoing(o)
    <3>1. Cardinality(incoming(resolved, n) \ removed') = 0
      <4>1. incoming(resolved, n) \ removed' = {}
        OBVIOUS
      <4> QED
        BY <4>1, FS_EmptySet
    <3>2. remainingInDegree[n] \in Nat
      BY <2>1, <1>5
    <3>3. Cardinality(incoming(resolved, n) \ removed') = remainingInDegree[n] - 1
      BY <2>1, <2>2, <1>5, Zenon
    <3>4. remainingInDegree[n] = 1
      BY <3>1, <3>2, <3>3
    <3> QED
      BY <1>1, <2>2, <3>4
  <2>3. CASE n \notin outgoing(o)
    <3>1. incoming(resolved, n) \subseteq removed
      BY <1>1, <2>3, OutgoingIncoming
    <3> QED
      BY <1>1, <3>1 DEF Inv, ReadyIsQueued
  <2> QED
    BY <2>2, <2>3
<1>10. Ordered'
  <2> SUFFICES ASSUME NEW selection \in SUBSET Started', selection # {}
               PROVE  \E p \in selection : \A q \in selection : Consumer[q] # Producer[p]
    BY DEF Ordered
  <2> DEFINE before == { p \in selection : Producer[p] \in removed }
  <2>1. \A p \in selection : p \in resolved /\ (p \in before \/ Producer[p] = o)
    BY <1>1 DEF Started
  <2>2. CASE before # {}
    <3>1. before \in SUBSET Started
      BY <2>1 DEF Started
    <3>2. PICK p \in before : \A q \in before : Consumer[q] # Producer[p]
      BY <2>2, <3>1 DEF Inv, Ordered
    <3>3. incoming(resolved, Producer[p]) \subseteq removed
      BY <3>2 DEF Inv, ProducersFirst
    <3>4. ASSUME NEW q \in selection, Producer[q] = o, Consumer[q] = Producer[p] PROVE FALSE
      <4>1. o \in incoming(resolved, Producer[p])
        BY <2>1, <3>4 DEF incoming
      <4> QED
        BY <1>1, <3>3, <4>1
    <3> QED
      BY <2>1, <3>2, <3>4
  <2>3. CASE before = {}
    <3>1. PICK p \in selection : Producer[p] = o
      BY <2>1, <2>3
    <3>2. ASSUME NEW q \in selection, Consumer[q] = o PROVE FALSE
      <4>1. o \in incoming(resolved, o)
        BY <2>1, <2>3, <3>2 DEF incoming
      <4> QED
        BY <1>1, <1>3, <4>1
    <3> QED
      BY <3>1, <3>2
  <2> QED
    BY <2>2, <2>3
<1> QED
  BY <1>6, <1>7, <1>8, <1>9, <1>10 DEF Inv

\* Every step of an analysis keeps the invariant.
LEMMA NextInv == Inv /\ [Next]_vars => Inv'
<1> SUFFICES ASSUME Inv, [Next]_vars PROVE Inv'
  OBVIOUS
<1>1. CASE mergeInputHints
  BY <1>1, FrameInv DEF mergeInputHints, Split
<1>2. CASE runAIAssistedPass
  BY <1>2, FrameInv DEF runAIAssistedPass, Split
<1>3. CASE TimesOut
  BY <1>3, FrameInv DEF TimesOut, Split
<1>4. CASE buildDependencyGraph
  BY <1>4, BuildInv
<1>5. CASE \E o \in Operations : removeOperation(o)
  BY <1>5, RemoveInv
<1>6. CASE enumerateWorkflows
  BY <1>6, FrameInv DEF enumerateWorkflows, Split
<1>7. CASE \E v \in visits : visit(v)
  <2>1. PICK v \in visits : visit(v)
    BY <1>7
  <2>2. phase = "assembling" /\ phase' = phase /\ UNCHANGED graphVars
    BY <2>1 DEF visit
  <2>3. queue = {}
    BY <2>2 DEF Inv, Types, Split
  <2> QED
    BY <2>2, <2>3, FrameInv
<1>8. CASE assembleWorkflows
  <2>1. queue = {}
    BY <1>8 DEF Inv, Types, Split, assembleWorkflows
  <2> QED
    BY <1>8, <2>1, FrameInv DEF assembleWorkflows
<1>9. CASE UNCHANGED vars
  <2>1. UNCHANGED graphVars /\ phase' = phase
    BY <1>9 DEF vars
  <2>2. Split' => queue = {}
    BY <2>1 DEF Inv, Types, Split
  <2> QED
    BY <2>1, <2>2, FrameInv
<1> QED
  BY <1>1, <1>2, <1>3, <1>4, <1>5, <1>6, <1>7, <1>8, <1>9 DEF Next

\* The counting of buildDependencyGraph is right in every state of an analysis.
LEMMA InvHolds == Spec => []Inv
BY InitInv, NextInv, PTL DEF Spec

-----------------------------------------------------------------------------
(* What follows *)

\* What is kept starts at a removed operation.
LEMMA AcyclicStarted == Inv => acyclicRelationships \subseteq Started
<1> SUFFICES ASSUME Inv, NEW p \in acyclicRelationships PROVE p \in Started
  OBVIOUS
<1>1. p \in resolved /\ {Producer[p], Consumer[p]} \subseteq nodes(resolved)
  BY DEF acyclicRelationships, nodes
<1>2. Producer[p] \in removed \/ Consumer[p] \in removed
  BY <1>1 DEF acyclicRelationships, cyclicRelationships, cyclicNodeSet
<1>3. CASE Consumer[p] \in removed
  <2>1. Producer[p] \in incoming(resolved, Consumer[p])
    BY <1>1 DEF incoming
  <2> QED
    BY <1>1, <1>3, <2>1 DEF Inv, ProducersFirst, Started
<1> QED
  BY <1>1, <1>2, <1>3 DEF Started

\* FR-013, FR-014: whatever was matched, hinted and suggested, the relationships that
\* buildDependencyGraph keeps for workflows have a common order of steps.
THEOREM OneOrder == Spec => []ConsistentOrder
<1>1. Inv => ConsistentOrder
  <2> SUFFICES ASSUME Inv, NEW selection \in SUBSET acyclicRelationships, selection # {}
               PROVE  \E p \in selection : \A q \in selection : Consumer[q] # Producer[p]
    BY DEF ConsistentOrder
  <2>1. selection \in SUBSET Started
    BY AcyclicStarted
  <2> QED
    BY <2>1 DEF Inv, Ordered
<1> QED
  BY <1>1, InvHolds, PTL

\* FR-014: every group of relationships withheld from workflows holds a cycle: none of them
\* starts at an operation that no other of the group leads to.
THEOREM WithheldHaveCycle == Spec => []CyclesAreReal
<1>1. Inv => CyclesAreReal
  <2> SUFFICES ASSUME Inv, Split, NEW finding \in groupCyclicRelationshipsIntoFindings,
                      NEW p \in finding
               PROVE  \E q \in finding : Consumer[q] = Producer[p]
    BY DEF CyclesAreReal
  <2>1. finding \subseteq cyclicRelationships /\ Closed(finding)
    BY DEF groupCyclicRelationshipsIntoFindings
  <2>2. p \in resolved /\ Producer[p] \in nodes(resolved) \ removed
    BY <2>1 DEF cyclicRelationships, cyclicNodeSet
  <2>3. ~(incoming(resolved, Producer[p]) \subseteq removed)
    BY <2>2 DEF Inv, Types, ReadyIsQueued
  <2>4. PICK q \in resolved : Consumer[q] = Producer[p] /\ Producer[q] \notin removed
    BY <2>3 DEF incoming
  <2>5. q \in cyclicRelationships
    BY <2>2, <2>4 DEF cyclicRelationships, cyclicNodeSet, nodes
  <2>6. Touching(p, q)
    BY <2>4 DEF Touching
  <2>7. q \in finding
    BY <2>1, <2>5, <2>6 DEF Closed
  <2> QED
    BY <2>4, <2>7
<1> QED
  BY <1>1, InvHolds, PTL

-----------------------------------------------------------------------------
(* The paths *)

\* A walk along relationships kept for workflows: each starts where the one before it ends.
IsWalk(path) ==
  /\ path \in Seq(acyclicRelationships)
  /\ \A i \in 1..(Len(path) - 1) : Producer[path[i + 1]] = Consumer[path[i]]

\* A relationship that is on a path, found or still under way, or that was offered as too long.
Handled(p) ==
  \/ p \in oversized
  \/ \E w \in workflows : \E i \in 1..Len(w) : w[i] = p
  \/ \E v \in visits : \E i \in 1..Len(v.path) : v.path[i] = p

\* Whatever starts at the operation is handled.
Followed(o) == \A p \in acyclicRelationships : Producer[p] = o => Handled(p)

VisitOK(v) ==
  /\ IsWalk(v.path)
  /\ v.path # <<>> => v.at = Consumer[v.path[Len(v.path)]]
  /\ \A i \in 1..(Len(v.path) - 1) : Followed(Consumer[v.path[i]])
WorkflowOK(w) ==
  /\ w \in Seq(acyclicRelationships)
  /\ \A i \in 1..Len(w) : Followed(Consumer[w[i]])

\* A visit has followed its path up to where it is; nothing else of the walks is left out.
PathsOK ==
  /\ \A v \in visits : VisitOK(v)
  /\ \A w \in workflows : WorkflowOK(w)
  /\ \A o \in startOperations : Followed(o) \/ \E v \in visits : v.at = o /\ v.path = <<>>

PathsInv ==
  /\ confidence \in [Pairs -> Confidence]
  /\ phase \in {"ordering", "assembling", "assembled"} => resolved = resolveProducerDisambiguation
  /\ phase \in {"matched", "hinted", "merged", "ordering"} => visits = {} /\ workflows = {}
  /\ phase = "assembled" => visits = {}
  /\ Split => PathsOK

\* A walk never returns to where it has been: with the relationship that would close it, no
\* relationship of the cycle would come first.
LEMMA NoReturn ==
  ASSUME Inv, NEW v, IsWalk(v.path), v.path # <<>> => v.at = Consumer[v.path[Len(v.path)]],
         NEW p \in acyclicRelationships, Producer[p] = v.at
  PROVE  p \in edgesOf(v)
<1>1. PICK path \in Seq(acyclicRelationships) :
        path = v.path /\ \A i \in 1..(Len(path) - 1) : Producer[path[i + 1]] = Consumer[path[i]]
  BY DEF IsWalk
<1>2. Len(path) \in Nat /\ DOMAIN path = 1..Len(path)
      /\ \A i \in 1..Len(path) : path[i] \in acyclicRelationships
  BY <1>1
<1>3. ASSUME Consumer[p] = v.at PROVE FALSE
  <2>1. {p} \in SUBSET Started BY AcyclicStarted
  <2>2. PICK q \in {p} : \A r \in {p} : Consumer[r] # Producer[q] BY <2>1 DEF Inv, Ordered
  <2> QED BY <1>3, <2>2
<1>4. ASSUME NEW i \in 1..Len(path), Consumer[p] = Producer[path[i]] PROVE FALSE
  <2> DEFINE cycle == { path[j] : j \in i..Len(path) } \cup {p}
  <2>1. cycle \in SUBSET Started BY <1>2, AcyclicStarted
  <2>2. PICK q \in cycle : \A r \in cycle : Consumer[r] # Producer[q] BY <2>1 DEF Inv, Ordered
  <2>3. CASE q = p
    <3>1. path # <<>> BY <1>2
    <3>2. v.at = Consumer[path[Len(path)]] /\ path[Len(path)] \in cycle BY <1>1, <1>2, <3>1
    <3> QED BY <2>2, <2>3, <3>2
  <2>4. ASSUME NEW j \in i..Len(path), q = path[j] PROVE FALSE
    <3>1. CASE j = i BY <1>4, <2>2, <2>4, <3>1
    <3>2. CASE j # i
      <4>1. j - 1 \in 1..(Len(path) - 1) /\ j - 1 \in i..Len(path) /\ (j - 1) + 1 = j
        BY <1>2, <3>2
      <4>2. Producer[path[j]] = Consumer[path[j - 1]] /\ path[j - 1] \in cycle BY <1>1, <4>1
      <4> QED BY <2>2, <2>4, <4>2
    <3> QED BY <3>1, <3>2
  <2> QED BY <2>3, <2>4
<1> QED BY <1>1, <1>2, <1>3, <1>4 DEF edgesOf, visitedKeys

LEMMA ConfidenceFound ==
  ASSUME NEW signals
  PROVE  classifyDeterministicEvidence(signals) \in Confidence
<1>1. CASE "name" \notin signals BY <1>1 DEF classifyDeterministicEvidence, Confidence
<1>2. CASE "name" \in signals /\ {"name", "resource"} \subseteq signals
  BY <1>2 DEF classifyDeterministicEvidence, Confidence
<1>3. CASE "name" \in signals /\ ~({"name", "resource"} \subseteq signals)
  BY <1>3 DEF classifyDeterministicEvidence, Confidence
<1> QED BY <1>1, <1>2, <1>3

LEMMA InitPaths == Init => PathsInv
BY ConfidenceFound DEF Init, PathsInv, Split

\* Steps that leave the relationships, the graph and the paths alone.
LEMMA PathsFrame ==
  ASSUME PathsInv, UNCHANGED <<confidence, evidence, graphVars, pathVars>>,
         \/ phase' = phase \/ phase' = "timed-out"
         \/ phase = "assembling" /\ phase' = "assembled" /\ visits = {}
  PROVE  PathsInv'
<1>1. /\ confidence' = confidence /\ evidence' = evidence /\ resolved' = resolved
      /\ removed' = removed /\ visits' = visits /\ workflows' = workflows /\ oversized' = oversized
  BY DEF graphVars, pathVars
<1>2. PathsOK => PathsOK'
  <2>1. acyclicRelationships' = acyclicRelationships /\ startOperations' = startOperations
    BY <1>1 DEF startOperations, acyclicRelationships, cyclicRelationships, cyclicNodeSet, nodes
  <2>2. \A p : Handled(p) => Handled(p)' BY <1>1 DEF Handled
  <2>3. \A o : Followed(o) => Followed(o)' BY <2>1, <2>2 DEF Followed
  <2>4. \A v : VisitOK(v) => VisitOK(v)' BY <2>1, <2>3 DEF VisitOK, IsWalk
  <2>5. \A w : WorkflowOK(w) => WorkflowOK(w)' BY <2>1, <2>3 DEF WorkflowOK
  <2> QED BY <1>1, <2>1, <2>3, <2>4, <2>5 DEF PathsOK
<1>3. resolveProducerDisambiguation' = resolveProducerDisambiguation
  BY <1>1 DEF resolveProducerDisambiguation, eligible, sameConsumer, compareCandidates,
              evidenceSignalCount
<1> QED BY <1>1, <1>2, <1>3 DEF PathsInv, Split

\* The paths begin at the operations nothing leads to.
LEMMA EnumeratePaths ==
  ASSUME PathsInv, enumerateWorkflows
  PROVE  PathsInv'
<1>1. /\ confidence' = confidence /\ evidence' = evidence /\ resolved' = resolved
      /\ removed' = removed /\ workflows = {} /\ workflows' = {} /\ oversized' = oversized
      /\ visits' = { [at |-> o, path |-> <<>>] : o \in startOperations }
      /\ phase = "ordering" /\ phase' = "assembling"
  BY DEF enumerateWorkflows, graphVars, PathsInv
<1>2. acyclicRelationships' = acyclicRelationships /\ startOperations' = startOperations
  BY <1>1 DEF startOperations, acyclicRelationships, cyclicRelationships, cyclicNodeSet, nodes
<1>3. PathsOK'
  <2>1. ASSUME NEW v \in visits' PROVE VisitOK(v)'
    <3>1. v.path = <<>> BY <1>1, <2>1
    <3>2. <<>> \in Seq(acyclicRelationships') /\ Len(<<>>) = 0 OBVIOUS
    <3> QED BY <3>1, <3>2 DEF VisitOK, IsWalk
  <2>2. \A o \in startOperations' : \E v \in visits' : v.at = o /\ v.path = <<>>
    <3> SUFFICES ASSUME NEW o \in startOperations
                 PROVE  \E v \in visits' : v.at = o /\ v.path = <<>>
      BY <1>2
    <3>1. [at |-> o, path |-> <<>>] \in visits' BY <1>1
    <3> QED BY <3>1
  <2>3. \A w \in workflows' : WorkflowOK(w)' BY <1>1
  <2> QED BY <2>1, <2>2, <2>3 DEF PathsOK
<1>4. resolveProducerDisambiguation' = resolveProducerDisambiguation
  BY <1>1 DEF resolveProducerDisambiguation, eligible, sameConsumer, compareCandidates,
              evidenceSignalCount
<1> QED BY <1>1, <1>3, <1>4 DEF PathsInv, Split

\* Whatever a visit leads to next, nothing that was handled is lost.
LEMMA VisitHandles ==
  ASSUME Inv, PathsOK, NEW v \in visits, visit(v)
  PROVE  /\ acyclicRelationships' = acyclicRelationships /\ startOperations' = startOperations
         /\ \A p : Handled(p) => Handled(p)'
         /\ Followed(v.at)'
         /\ \A u \in visits' : u \in visits \/ \E p \in acyclicRelationships :
              Producer[p] = v.at /\ u = [at |-> Consumer[p], path |-> Append(v.path, p)]
         /\ \A w \in workflows' : w \in workflows \/ w = v.path
         /\ visits \ {v} \subseteq visits'
<1> DEFINE tooLong == stepCount(v) + 1 > MaxSteps
           edges == edgesOf(v)
           next  == IF tooLong THEN {}
                    ELSE { [at |-> Consumer[p], path |-> Append(v.path, p)] : p \in edges }
<1>1. /\ visits' = (visits \ {v}) \cup next
      /\ oversized' = IF tooLong THEN oversized \cup edges ELSE oversized
      /\ workflows' = IF next = {} /\ v.path # <<>> THEN workflows \cup {v.path} ELSE workflows
      /\ resolved' = resolved /\ removed' = removed
  BY DEF visit, graphVars
<1>2. acyclicRelationships' = acyclicRelationships /\ startOperations' = startOperations
  BY <1>1 DEF startOperations, acyclicRelationships, cyclicRelationships, cyclicNodeSet, nodes
<1>3. /\ IsWalk(v.path) /\ (v.path # <<>> => v.at = Consumer[v.path[Len(v.path)]])
      /\ v.path \in Seq(acyclicRelationships)
  BY DEF PathsOK, VisitOK, IsWalk
<1>4. \A p \in acyclicRelationships : Producer[p] = v.at => p \in edges
  BY <1>3, NoReturn
<1>5. \A p \in edges : p \in acyclicRelationships /\ Producer[p] = v.at BY DEF edgesOf
<1> HIDE DEF edges
<1>6. \A p : /\ Len(Append(v.path, p)) = Len(v.path) + 1 /\ Len(v.path) \in Nat
             /\ \A i \in 1..Len(v.path) :
                  i \in 1..Len(Append(v.path, p)) /\ Append(v.path, p)[i] = v.path[i]
             /\ Append(v.path, p)[Len(v.path) + 1] = p
  BY <1>3
<1>7. ASSUME NEW p \in edges PROVE Handled(p)'
  <2>1. CASE tooLong BY <1>1, <1>7, <2>1 DEF Handled
  <2>2. CASE ~tooLong
    <3>1. PICK u : u = [at |-> Consumer[p], path |-> Append(v.path, p)] OBVIOUS
    <3>2. u \in visits' /\ u.path = Append(v.path, p) BY <1>1, <1>7, <2>2, <3>1
    <3>3. Len(v.path) + 1 \in 1..Len(u.path) /\ u.path[Len(v.path) + 1] = p BY <1>6, <3>2
    <3> QED BY <3>2, <3>3 DEF Handled
  <2> QED BY <2>1, <2>2
<1>8. ASSUME NEW p, Handled(p) PROVE Handled(p)'
  <2>1. CASE p \in oversized BY <1>1, <2>1 DEF Handled
  <2>2. ASSUME NEW w \in workflows, NEW i \in 1..Len(w), w[i] = p PROVE Handled(p)'
    BY <1>1, <2>2 DEF Handled
  <2>3. ASSUME NEW u \in visits, u # v, NEW i \in 1..Len(u.path), u.path[i] = p PROVE Handled(p)'
    BY <1>1, <2>3 DEF Handled
  <2>4. ASSUME NEW i \in 1..Len(v.path), v.path[i] = p PROVE Handled(p)'
    <3>1. v.path # <<>> BY <1>3, <2>4
    <3>2. CASE next = {}
      <4>1. v.path \in workflows' BY <1>1, <3>1, <3>2
      <4> QED BY <2>4, <4>1 DEF Handled
    <3>3. CASE next # {}
      <4>1. PICK q \in edges : [at |-> Consumer[q], path |-> Append(v.path, q)] \in next BY <3>3
      <4>2. PICK u : u = [at |-> Consumer[q], path |-> Append(v.path, q)] OBVIOUS
      <4>3. u \in visits' /\ u.path = Append(v.path, q) BY <1>1, <4>1, <4>2
      <4>4. i \in 1..Len(u.path) /\ u.path[i] = p BY <1>6, <2>4, <4>3
      <4> QED BY <4>3, <4>4 DEF Handled
    <3> QED BY <3>2, <3>3
  <2> QED BY <1>8, <2>1, <2>2, <2>3, <2>4 DEF Handled
<1>9. Followed(v.at)' BY <1>2, <1>4, <1>7 DEF Followed
<1>10. \A u \in visits' : u \in visits \/ \E p \in acyclicRelationships :
         Producer[p] = v.at /\ u = [at |-> Consumer[p], path |-> Append(v.path, p)]
  BY <1>1, <1>5
<1>11. \A w \in workflows' : w \in workflows \/ w = v.path BY <1>1
<1>12. visits \ {v} \subseteq visits' BY <1>1
<1> QED BY <1>2, <1>8, <1>9, <1>10, <1>11, <1>12

LEMMA VisitPaths ==
  ASSUME Inv, PathsInv, NEW v \in visits, visit(v)
  PROVE  PathsInv'
<1>0. /\ phase = "assembling" /\ phase' = phase /\ confidence' = confidence
      /\ evidence' = evidence /\ resolved' = resolved
  BY DEF visit, graphVars
<1>1. PathsOK BY <1>0 DEF PathsInv, Split
<1>2. /\ acyclicRelationships' = acyclicRelationships /\ startOperations' = startOperations
      /\ \A p : Handled(p) => Handled(p)'
      /\ Followed(v.at)'
      /\ \A u \in visits' : u \in visits \/ \E p \in acyclicRelationships :
           Producer[p] = v.at /\ u = [at |-> Consumer[p], path |-> Append(v.path, p)]
      /\ \A w \in workflows' : w \in workflows \/ w = v.path
      /\ visits \ {v} \subseteq visits'
  BY <1>1, VisitHandles
<1>3. \A o : Followed(o) => Followed(o)' BY <1>2 DEF Followed
<1>4. /\ IsWalk(v.path) /\ (v.path # <<>> => v.at = Consumer[v.path[Len(v.path)]])
      /\ \A i \in 1..(Len(v.path) - 1) : Followed(Consumer[v.path[i]])
      /\ v.path \in Seq(acyclicRelationships)
  BY <1>1 DEF PathsOK, VisitOK, IsWalk
<1>5. \A i \in 1..Len(v.path) : Followed(Consumer[v.path[i]])'
  <2> SUFFICES ASSUME NEW i \in 1..Len(v.path) PROVE Followed(Consumer[v.path[i]])'
    OBVIOUS
  <2>1. Len(v.path) \in Nat BY <1>4
  <2>2. CASE i = Len(v.path)
    <3>1. v.path # <<>> BY <2>2
    <3>2. v.at = Consumer[v.path[i]] BY <1>4, <2>2, <3>1
    <3> QED BY <1>2, <3>2
  <2>3. CASE i # Len(v.path)
    <3>1. i \in 1..(Len(v.path) - 1) BY <2>1, <2>3
    <3>2. Followed(Consumer[v.path[i]]) BY <1>4, <3>1
    <3> QED BY <1>3, <3>2
  <2> QED BY <2>2, <2>3
<1>6. ASSUME NEW u \in visits' PROVE VisitOK(u)'
  <2>1. CASE u \in visits
    <3>1. VisitOK(u) BY <1>1, <2>1 DEF PathsOK
    <3> QED BY <1>2, <1>3, <3>1 DEF VisitOK, IsWalk
  <2>2. ASSUME NEW p \in acyclicRelationships, Producer[p] = v.at,
               u = [at |-> Consumer[p], path |-> Append(v.path, p)]
        PROVE  VisitOK(u)'
    <3>1. PICK path \in Seq(acyclicRelationships) : path = v.path BY <1>4
    <3>2. PICK longer : longer = Append(path, p) OBVIOUS
    <3>3. /\ longer \in Seq(acyclicRelationships) /\ Len(longer) = Len(path) + 1
          /\ Len(path) \in Nat /\ \A i \in 1..Len(path) : longer[i] = path[i]
          /\ longer[Len(path) + 1] = p /\ longer # <<>>
      BY <3>2
    <3>4. u.path = longer /\ u.at = Consumer[p] BY <2>2, <3>1, <3>2
    <3>5. \A i \in 1..(Len(path) - 1) : Producer[path[i + 1]] = Consumer[path[i]]
      BY <1>4, <3>1 DEF IsWalk
    <3>6. path # <<>> => Producer[p] = Consumer[path[Len(path)]] BY <1>4, <2>2, <3>1
    <3>7. ASSUME NEW i \in 1..(Len(longer) - 1) PROVE Producer[longer[i + 1]] = Consumer[longer[i]]
      <4>1. CASE i = Len(path)
        <5>1. path # <<>> BY <4>1
        <5> QED BY <3>3, <3>6, <4>1, <5>1
      <4>2. CASE i # Len(path)
        <5>1. i \in 1..(Len(path) - 1) /\ i \in 1..Len(path) /\ i + 1 \in 1..Len(path)
          BY <3>3, <4>2
        <5> QED BY <3>3, <3>5, <5>1
      <4> QED BY <4>1, <4>2
    <3>8. \A i \in 1..(Len(longer) - 1) : Followed(Consumer[longer[i]])'
      <4> SUFFICES ASSUME NEW i \in 1..(Len(longer) - 1) PROVE Followed(Consumer[longer[i]])'
        OBVIOUS
      <4>1. i \in 1..Len(path) BY <3>3
      <4>2. longer[i] = v.path[i] /\ i \in 1..Len(v.path) BY <3>1, <3>3, <4>1
      <4> QED BY <1>5, <4>2
    <3>9. IsWalk(longer)' BY <1>2, <3>3, <3>7 DEF IsWalk
    <3>10. Len(longer) = Len(path) + 1 /\ Consumer[longer[Len(longer)]] = u.at BY <3>3, <3>4
    <3> QED BY <3>4, <3>8, <3>9, <3>10 DEF VisitOK
  <2> QED BY <1>2, <2>1, <2>2
<1>7. ASSUME NEW w \in workflows' PROVE WorkflowOK(w)'
  <2>1. CASE w \in workflows
    <3>1. WorkflowOK(w) BY <1>1, <2>1 DEF PathsOK
    <3> QED BY <1>2, <1>3, <3>1 DEF WorkflowOK
  <2>2. CASE w = v.path BY <1>2, <1>4, <1>5, <2>2 DEF WorkflowOK
  <2> QED BY <1>2, <2>1, <2>2
<1>8. ASSUME NEW o \in startOperations'
      PROVE  Followed(o)' \/ \E u \in visits' : u.at = o /\ u.path = <<>>
  <2>1. o \in startOperations BY <1>2
  <2>2. CASE Followed(o) BY <1>3, <2>2
  <2>3. ASSUME NEW u \in visits, u.at = o, u.path = <<>>
        PROVE  Followed(o)' \/ \E z \in visits' : z.at = o /\ z.path = <<>>
    BY <1>2, <2>3
  <2> QED BY <1>1, <2>1, <2>2, <2>3 DEF PathsOK
<1>9. PathsOK' BY <1>6, <1>7, <1>8 DEF PathsOK
<1>10. resolveProducerDisambiguation' = resolveProducerDisambiguation
  BY <1>0 DEF resolveProducerDisambiguation, eligible, sameConsumer, compareCandidates,
              evidenceSignalCount
<1> QED BY <1>0, <1>9, <1>10 DEF PathsInv, Split

LEMMA NextPaths == Inv /\ PathsInv /\ [Next]_vars => PathsInv'
<1> SUFFICES ASSUME Inv, PathsInv, [Next]_vars PROVE PathsInv'
  OBVIOUS
<1>1. CASE mergeInputHints
  <2>1. PICK hint \in Hints :
          confidence' = [p \in Pairs |->
            IF CONFIDENCE_RANK[confidenceOfHint(hint[p])] < CONFIDENCE_RANK[confidence[p]]
            THEN confidenceOfHint(hint[p]) ELSE confidence[p]]
    BY <1>1 DEF mergeInputHints
  <2>2. \A h : confidenceOfHint(h) \in Confidence
    <3> TAKE h
    <3>1. CASE h = "verified" BY <3>1 DEF confidenceOfHint, Confidence
    <3>2. CASE h \in {"declared", "reused"} BY <3>2 DEF confidenceOfHint, Confidence
    <3>3. CASE h = "reused once" BY <3>3 DEF confidenceOfHint, Confidence
    <3>4. CASE h \notin {"verified", "declared", "reused", "reused once"}
      BY <3>4 DEF confidenceOfHint, Confidence
    <3> QED BY <3>1, <3>2, <3>3, <3>4
  <2>3. confidence' \in [Pairs -> Confidence] BY <2>1, <2>2 DEF PathsInv
  <2>4. phase = "matched" /\ phase' = "hinted" /\ visits' = visits /\ workflows' = workflows
    BY <1>1 DEF mergeInputHints, pathVars
  <2> QED BY <2>3, <2>4 DEF PathsInv, Split
<1>2. CASE runAIAssistedPass
  <2>1. PICK suggested \in Suggestions : confidence' = mergeDeterministicAndAI(suggested)
    BY <1>2 DEF runAIAssistedPass
  <2>2. \A s : classifyAIOnlyConfidence(s) \in Confidence
    BY DEF classifyAIOnlyConfidence, Confidence
  <2>3. confidence' \in [Pairs -> Confidence]
    BY <2>1, <2>2 DEF PathsInv, mergeDeterministicAndAI
  <2>4. phase = "hinted" /\ phase' = "merged" /\ visits' = visits /\ workflows' = workflows
    BY <1>2 DEF runAIAssistedPass, pathVars
  <2> QED BY <2>3, <2>4 DEF PathsInv, Split
<1>3. CASE TimesOut BY <1>3, PathsFrame DEF TimesOut
<1>4. CASE buildDependencyGraph
  <2>1. /\ phase = "merged" /\ phase' = "ordering" /\ visits' = visits /\ workflows' = workflows
        /\ confidence' = confidence /\ evidence' = evidence
        /\ resolved' = resolveProducerDisambiguation
    BY <1>4 DEF buildDependencyGraph, pathVars
  <2>2. resolveProducerDisambiguation' = resolveProducerDisambiguation
    BY <2>1 DEF resolveProducerDisambiguation, eligible, sameConsumer, compareCandidates,
                evidenceSignalCount
  <2> QED BY <2>1, <2>2 DEF PathsInv, Split
<1>5. ASSUME NEW o \in Operations, removeOperation(o) PROVE PathsInv'
  <2>1. /\ phase = "ordering" /\ phase' = phase /\ visits' = visits /\ workflows' = workflows
        /\ confidence' = confidence /\ evidence' = evidence /\ resolved' = resolved
    BY <1>5 DEF removeOperation, pathVars
  <2>2. resolveProducerDisambiguation' = resolveProducerDisambiguation
    BY <2>1 DEF resolveProducerDisambiguation, eligible, sameConsumer, compareCandidates,
                evidenceSignalCount
  <2> QED BY <2>1, <2>2 DEF PathsInv, Split
<1>6. CASE enumerateWorkflows BY <1>6, EnumeratePaths
<1>7. CASE \E v \in visits : visit(v) BY <1>7, VisitPaths
<1>8. CASE assembleWorkflows BY <1>8, PathsFrame DEF assembleWorkflows
<1>9. CASE UNCHANGED vars BY <1>9, PathsFrame DEF vars
<1> QED
  BY <1>1, <1>2, <1>3, <1>4, <1>5, <1>6, <1>7, <1>8, <1>9 DEF Next

\* What a set that goes on from the oversized relationships holds.
LEMMA PastLimitGoesOn ==
  ASSUME acyclicRelationships \subseteq Pairs
  PROVE  /\ \A p \in oversized \cap Pairs : Consumer[p] \in PastLimit
         /\ \A p \in acyclicRelationships : Producer[p] \in PastLimit => Consumer[p] \in PastLimit
BY EndsAreOperations DEF PastLimit, GoesOn

\* FR-012, FR-014: when the workflows are assembled, every relationship found is in one of them,
\* offered for manual confirmation or in a cycle finding, unless it starts past one that was
\* offered because it would make a path too long; and no workflow uses a relationship that was
\* excluded or is in or behind a cycle (enumerateWorkflows.ts, analyzeDependencies.ts).
THEOREM NothingLost == Spec => []RelationshipsAccounted
<1>1. Inv /\ PathsInv => RelationshipsAccounted
  <2> SUFFICES ASSUME Inv, PathsInv, phase = "assembled" PROVE RelationshipsAccounted
    BY DEF RelationshipsAccounted
  <2> DEFINE used == UNION { { w[i] : i \in DOMAIN w } : w \in workflows }
             reported == manualConfirmationCandidates \cup cyclicRelationships
  <2>1. /\ PathsOK /\ visits = {} /\ resolved = resolveProducerDisambiguation
        /\ acyclicRelationships \subseteq Pairs /\ confidence \in [Pairs -> Confidence]
    BY DEF PathsInv, Split, Inv, Types, acyclicRelationships
  <2>2. \A w \in workflows : w \in Seq(acyclicRelationships) BY <2>1 DEF PathsOK, WorkflowOK
  <2>3. \A w \in workflows : DOMAIN w = 1..Len(w) BY <2>2
  <2>4. used \subseteq acyclicRelationships
    <3> SUFFICES ASSUME NEW w \in workflows, NEW i \in DOMAIN w PROVE w[i] \in acyclicRelationships
      OBVIOUS
    <3> QED BY <2>2
  <2>5. used \cap (excluded \cup cyclicRelationships) = {}
    BY <2>1, <2>4 DEF acyclicRelationships, excluded
  <2>6. \A p \in acyclicRelationships : Handled(p) => p \in used \/ p \in oversized
    BY <2>1, <2>3 DEF Handled
  <2> DEFINE lost == { p \in acyclicRelationships :
                         ~(p \in used \/ p \in oversized) /\ Producer[p] \notin PastLimit }
  <2>7. ASSUME lost # {} PROVE FALSE
    <3>1. lost \in SUBSET Started BY AcyclicStarted
    <3>2. PICK p \in lost : \A q \in lost : Consumer[q] # Producer[p]
      BY <2>7, <3>1 DEF Inv, Ordered
    <3>3. ~Followed(Producer[p]) BY <2>6, <3>2 DEF Followed
    <3>4. PICK q \in acyclicRelationships : Consumer[q] = Producer[p]
      <4>1. Producer[p] \notin startOperations BY <2>1, <3>3 DEF PathsOK
      <4> QED BY <4>1 DEF startOperations
    <3>5. CASE q \in oversized \/ Producer[q] \in PastLimit
      BY <2>1, <3>2, <3>4, <3>5, PastLimitGoesOn
    <3>6. CASE q \in used
      <4>1. PICK w \in workflows : \E i \in DOMAIN w : w[i] = q BY <3>6
      <4>2. PICK i \in 1..Len(w) : w[i] = q BY <2>3, <4>1
      <4>3. Followed(Consumer[q]) BY <2>1, <4>2 DEF PathsOK, WorkflowOK
      <4> QED BY <3>3, <3>4, <4>3
    <3> QED BY <3>2, <3>4, <3>5, <3>6
  <2>8. ASSUME NEW p \in relationships
        PROVE  p \in used \cup reported \/ Producer[p] \in PastLimit
    <3>1. p \in Pairs /\ confidence[p] \in {"POSSIBLE", "LIKELY", "CONFIRMED"}
      BY <2>1, <2>8 DEF relationships, Confidence
    <3>2. CASE confidence[p] = "POSSIBLE" BY <3>1, <3>2 DEF manualConfirmationCandidates
    <3>3. CASE confidence[p] # "POSSIBLE"
      <4>1. p \in eligible BY <3>1, <3>3 DEF eligible
      <4>2. CASE p \in excluded BY <4>2 DEF manualConfirmationCandidates
      <4>3. CASE p \in cyclicRelationships BY <4>3
      <4>4. CASE p \notin excluded /\ p \notin cyclicRelationships
        <5>1. p \in acyclicRelationships
          BY <2>1, <4>1, <4>4 DEF excluded, acyclicRelationships
        <5>2. p \notin lost BY <2>7
        <5>3. p \in used \/ p \in oversized \/ Producer[p] \in PastLimit BY <5>1, <5>2
        <5> QED BY <5>3 DEF manualConfirmationCandidates
      <4> QED BY <4>2, <4>3, <4>4
    <3> QED BY <3>2, <3>3
  <2> QED BY <2>5, <2>8 DEF RelationshipsAccounted
<1> QED
  BY <1>1, InitPaths, NextPaths, InvHolds, PTL DEF Spec
=============================================================================
