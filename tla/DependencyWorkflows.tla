-------------------------- MODULE DependencyWorkflows --------------------------
(***************************************************************************)
(* One dependency analysis (dependencies/analyzeDependencies.ts): which    *)
(* response field may feed which request field, from names and schemas,    *)
(* from the input's hints and from the model's suggestions; one producer   *)
(* per request field; the relationships that are in or behind a cycle;     *)
(* and the workflows, the bounded maximal paths through the rest.          *)
(*                                                                         *)
(* A relationship is its field pair, with the confidence it has; "none" is *)
(* no relationship. The operations in no cycle are removed one at a time,  *)
(* and the paths visited one at a time; the order among those that are     *)
(* ready is left open (the code sorts them).                               *)
(***************************************************************************)
EXTENDS Naturals, FiniteSets, Sequences

CONSTANTS
  Operations,
  Pairs,        \* field pairs: a producer's response field, a consumer's request field
  Producer, Consumer,   \* per pair: its operations
  Field,        \* per pair: the consumer's field and location
  Preference,   \* per pair: its place in the order of producer path, method and field
  Evidence,     \* what matching may find: per pair, the signals that agree
  Hints,        \* what the input's hints may say: per pair, where its hint is from
  Suggestions,  \* what the model may suggest: per pair, how sure it is
  MaxSteps      \* MAX_WORKFLOW_STEPS

Confidence == {"none", "POSSIBLE", "LIKELY", "CONFIRMED"}
Signal == {"name", "type", "format", "resource", "tag"}

ASSUME AnalysisAssumption ==
  /\ IsFiniteSet(Operations) /\ IsFiniteSet(Pairs) /\ MaxSteps \in Nat
  /\ Producer \in [Pairs -> Operations] /\ Consumer \in [Pairs -> Operations]
  /\ Preference \in [Pairs -> Nat]
  /\ \A p, q \in Pairs :
       Consumer[p] = Consumer[q] /\ Field[p] = Field[q] /\ Preference[p] = Preference[q] => p = q
  /\ Evidence \subseteq [Pairs -> SUBSET Signal]
  /\ Hints \subseteq [Pairs -> {"none", "reused once", "reused", "declared", "verified"}]
  /\ Suggestions \subseteq [Pairs -> {"none", "unsure", "sure"}]

VARIABLES
  phase,               \* how far the analysis is
  confidence,          \* per pair: the relationship's confidence, or "none"
  evidence,            \* per pair: the signals found by matching
  resolved,            \* the relationships chosen for workflows, one per consuming field
  remainingInDegree,   \* per operation, as buildDependencyGraph counts down
  queue,               \* operations with no producer left, not yet removed
  removed,             \* operations in no cycle and behind none
  visits,              \* calls of visit that are to come: where, and the path so far
  workflows,           \* the paths found
  oversized            \* relationships that would have made a path too long

graphVars == <<resolved, remainingInDegree, queue, removed>>
pathVars == <<visits, workflows, oversized>>
vars == <<phase, confidence, evidence, graphVars, pathVars>>

(* ------------------- relationships and their confidence ----------------- *)

\* No relationship ranks last, so that one found anew is an improvement.
CONFIDENCE_RANK == [none |-> 3, POSSIBLE |-> 2, LIKELY |-> 1, CONFIRMED |-> 0]

classifyDeterministicEvidence(signals) ==
  CASE "name" \notin signals -> "none"
    [] {"name", "resource"} \subseteq signals ->
         IF signals \cap {"type", "format"} # {} THEN "CONFIRMED" ELSE "LIKELY"
    [] OTHER -> IF Cardinality(signals \cap {"type", "format", "tag"}) >= 2
                THEN "LIKELY" ELSE "POSSIBLE"

confidenceOfHint(hint) ==
  CASE hint = "verified" -> "CONFIRMED"
    [] hint \in {"declared", "reused"} -> "LIKELY"
    [] hint = "reused once" -> "POSSIBLE"
    [] OTHER -> "none"

\* One of the model's suggestions is never more than LIKELY.
classifyAIOnlyConfidence(suggestion) ==
  CASE suggestion = "sure" -> "LIKELY" [] suggestion = "unsure" -> "POSSIBLE" [] OTHER -> "none"

\* computeDeterministicRelationships.
Init ==
  /\ phase = "matched"
  /\ evidence \in Evidence
  /\ confidence = [p \in Pairs |-> classifyDeterministicEvidence(evidence[p])]
  /\ resolved = {} /\ remainingInDegree = [o \in Operations |-> 0] /\ queue = {} /\ removed = {}
  /\ visits = {} /\ workflows = {} /\ oversized = {}

\* A hint for a pair already found keeps the better confidence.
mergeInputHints ==
  /\ phase = "matched"
  /\ phase' = "hinted"
  /\ \E hint \in Hints :
       confidence' = [p \in Pairs |->
         LET hinted == confidenceOfHint(hint[p])
         IN IF CONFIDENCE_RANK[hinted] < CONFIDENCE_RANK[confidence[p]]
            THEN hinted ELSE confidence[p]]
  /\ UNCHANGED <<evidence, graphVars, pathVars>>

\* A suggestion for a pair already found is corroboration and changes nothing.
mergeDeterministicAndAI(suggested) ==
  [p \in Pairs |->
    IF confidence[p] = "none" THEN classifyAIOnlyConfidence(suggested[p]) ELSE confidence[p]]

\* The units of the model's pass, of which any may fail or not be attempted, or the pass be
\* refused as a whole. Without a provider there are no suggestions.
runAIAssistedPass ==
  /\ phase = "hinted"
  /\ phase' = "merged"
  /\ \E suggested \in Suggestions : confidence' = mergeDeterministicAndAI(suggested)
  /\ UNCHANGED <<evidence, graphVars, pathVars>>

\* DependencyAnalysisTimeoutError: after matching, or when everything is assembled.
TimesOut ==
  /\ phase \in {"hinted", "assembled"}
  /\ phase' = "timed-out"
  /\ UNCHANGED <<confidence, evidence, graphVars, pathVars>>

(* ------------------------ one producer per field ------------------------ *)

relationships == { p \in Pairs : confidence[p] # "none" }
eligible == { p \in Pairs : confidence[p] \in {"CONFIRMED", "LIKELY"} }

evidenceSignalCount(p) == IF "name" \in evidence[p] THEN Cardinality(evidence[p]) ELSE 0

\* compareCandidates: p is sorted before q.
compareCandidates(p, q) ==
  LET rp == CONFIDENCE_RANK[confidence[p]]  rq == CONFIDENCE_RANK[confidence[q]]
      ep == evidenceSignalCount(p)          eq == evidenceSignalCount(q)
  IN \/ rp < rq
     \/ rp = rq /\ ep > eq
     \/ rp = rq /\ ep = eq /\ Preference[p] < Preference[q]

sameConsumer(p, q) == Consumer[p] = Consumer[q] /\ Field[p] = Field[q]

resolveProducerDisambiguation == { p \in eligible :
  \A q \in eligible \ {p} : sameConsumer(p, q) => compareCandidates(p, q) }
excluded == eligible \ resolveProducerDisambiguation

(* --------------------- buildDependencyGraph: Kahn ------------------------ *)

nodes(chosen) == { Producer[p] : p \in chosen } \cup { Consumer[p] : p \in chosen }
outgoing(o) == { Consumer[p] : p \in { q \in resolved : Producer[q] = o } }
incoming(chosen, o) == { Producer[p] : p \in { q \in chosen : Consumer[q] = o } }

\* Edges are between operations: several relationships between two of them count once.
inDegree_PerRelationship(chosen, o) == Cardinality({ p \in chosen : Consumer[p] = o })
inDegree(chosen, o) == Cardinality(incoming(chosen, o))

buildDependencyGraph ==
  /\ phase = "merged"
  /\ phase' = "ordering"
  /\ resolved' = resolveProducerDisambiguation
  /\ remainingInDegree' = [o \in Operations |-> inDegree(resolved', o)]
  /\ queue' = { o \in nodes(resolved') : inDegree(resolved', o) = 0 }
  /\ UNCHANGED <<confidence, evidence, removed, pathVars>>

\* Defect: an operation is ready when one producer is left.
removeOperation_OneLeft(o) ==
  LET freed == { n \in outgoing(o) \ (removed \cup {o}) : remainingInDegree[n] <= 2 }
  IN /\ phase = "ordering" /\ o \in queue
     /\ removed' = removed \cup {o}
     /\ remainingInDegree' = [n \in Operations |->
          IF n \in outgoing(o) \ removed' THEN remainingInDegree[n] - 1 ELSE remainingInDegree[n]]
     /\ queue' = (queue \ {o}) \cup freed
     /\ UNCHANGED <<phase, confidence, evidence, resolved, pathVars>>
removeOperation(o) ==
  LET freed == { n \in outgoing(o) \ (removed \cup {o}) : remainingInDegree[n] = 1 }
  IN /\ phase = "ordering" /\ o \in queue
     /\ removed' = removed \cup {o}
     /\ remainingInDegree' = [n \in Operations |->
          IF n \in outgoing(o) \ removed' THEN remainingInDegree[n] - 1 ELSE remainingInDegree[n]]
     /\ queue' = (queue \ {o}) \cup freed
     /\ UNCHANGED <<phase, confidence, evidence, resolved, pathVars>>

cyclicNodeSet == nodes(resolved) \ removed
cyclicRelationships ==
  { p \in resolved : Producer[p] \in cyclicNodeSet /\ Consumer[p] \in cyclicNodeSet }
acyclicRelationships == resolved \ cyclicRelationships

\* Grouping by union-find: the smallest sets of relationships that share no operation.
Touching(p, q) == {Producer[p], Consumer[p]} \cap {Producer[q], Consumer[q]} # {}
Closed(group) == \A p \in group, q \in cyclicRelationships : Touching(p, q) => q \in group
groupCyclicRelationshipsIntoFindings ==
  { group \in SUBSET cyclicRelationships :
      /\ group # {} /\ Closed(group)
      /\ \A part \in SUBSET group : part # {} /\ Closed(part) => part = group }

(* ---------------------- enumerateWorkflows: the paths -------------------- *)

startOperations ==
  { Producer[p] : p \in acyclicRelationships } \ { Consumer[p] : p \in acyclicRelationships }

enumerateWorkflows ==
  /\ phase = "ordering" /\ queue = {}
  /\ phase' = "assembling"
  /\ visits' = { [at |-> o, path |-> <<>>] : o \in startOperations }
  /\ UNCHANGED <<confidence, evidence, graphVars, workflows, oversized>>

visitedKeys(v) == {v.at} \cup { Producer[v.path[i]] : i \in DOMAIN v.path }
stepCount(v) == Len(v.path) + 1

\* Defect: an operation visited on any path is not visited again.
edgesOf_OncePerOperation(v) ==
  { p \in acyclicRelationships :
      Producer[p] = v.at /\ \A w \in workflows : \A i \in DOMAIN w : Consumer[w[i]] # Consumer[p] }
edgesOf(v) ==
  { p \in acyclicRelationships : Producer[p] = v.at /\ Consumer[p] \notin visitedKeys(v) }

visit(v) ==
  LET edges == edgesOf(v)
      next  == IF stepCount(v) + 1 > MaxSteps THEN {}
               ELSE { [at |-> Consumer[p], path |-> Append(v.path, p)] : p \in edges }
  IN /\ phase = "assembling" /\ v \in visits
     /\ visits' = (visits \ {v}) \cup next
     /\ oversized' = IF stepCount(v) + 1 > MaxSteps THEN oversized \cup edges ELSE oversized
     /\ workflows' = IF next = {} /\ v.path # <<>> THEN workflows \cup {v.path} ELSE workflows
     /\ UNCHANGED <<phase, confidence, evidence, graphVars>>

assembleWorkflows ==
  /\ phase = "assembling" /\ visits = {}
  /\ phase' = "assembled"
  /\ UNCHANGED <<confidence, evidence, graphVars, pathVars>>

manualConfirmationCandidates ==
  { p \in Pairs : confidence[p] = "POSSIBLE" } \cup excluded \cup oversized

Next ==
  \/ mergeInputHints \/ runAIAssistedPass \/ TimesOut
  \/ buildDependencyGraph
  \/ \E o \in Operations : removeOperation(o)
  \/ enumerateWorkflows
  \/ \E v \in visits : visit(v)
  \/ assembleWorkflows

Spec == Init /\ [][Next]_vars

(* ------------------------------ properties ------------------------------ *)

Split == phase \in {"assembling", "assembled"}

\* FR-013, FR-014: the relationships kept for workflows have one order of steps between them, so
\* no two workflows need contradictory orders: some relationship of any selection comes first.
ConsistentOrder ==
  Split => \A selection \in SUBSET acyclicRelationships : selection # {} =>
             \E p \in selection : \A q \in selection : Consumer[q] # Producer[p]

\* FR-014: relationships are withheld from workflows only with a cycle to show for it: every
\* finding holds one, as each of its relationships starts where another one ends.
CyclesAreReal ==
  Split => \A finding \in groupCyclicRelationshipsIntoFindings :
             \A p \in finding : \E q \in finding : Consumer[q] = Producer[p]

\* The operations a path cut at MaxSteps would have gone on to: the smallest set that holds those
\* the oversized relationships lead to, and whatever else is led to from there.
GoesOn(reach) ==
  /\ \A p \in oversized : Consumer[p] \in reach
  /\ \A p \in acyclicRelationships : Producer[p] \in reach => Consumer[p] \in reach
PastLimit == { o \in Operations : \A reach \in SUBSET Operations : GoesOn(reach) => o \in reach }

\* FR-012, FR-014: every relationship found is in a workflow, offered for manual confirmation, or
\* in a cycle finding, and a workflow uses only what it may. The exception is a relationship past
\* one that was offered because it would make a path too long.
RelationshipsAccounted ==
  phase = "assembled" =>
    LET used == UNION { { w[i] : i \in DOMAIN w } : w \in workflows }
        reported == manualConfirmationCandidates \cup cyclicRelationships
    IN /\ \A p \in relationships :
            p \in used \cup reported \/ Producer[p] \in PastLimit
       /\ used \cap (excluded \cup cyclicRelationships) = {}
=============================================================================
