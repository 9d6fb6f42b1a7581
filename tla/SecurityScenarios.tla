-------------------------- MODULE SecurityScenarios --------------------------
(***************************************************************************)
(* The security scenarios of the API Security Lab and their review         *)
(* (securityLab/scenarios/scenarioService.ts, review/reviewService.ts,     *)
(* review/stateMachine.ts). A scenario is a head and a list of versions    *)
(* that never change; an approval belongs to one version, and is carried   *)
(* to the next only when the material content is the same. A version's     *)
(* `content` stands for the hash of its material content, and `basis` for  *)
(* the hash of the operation it was written for.                           *)
(***************************************************************************)
EXTENDS Naturals, Sequences, FiniteSets

CONSTANTS
  Scenarios,
  Contents,      \* what the material content of a version may be
  Bases,         \* what the operation may look like in a loaded specification
  Generated,     \* per basis: the content the rules generate for it
  MaxVersions,   \* bound: versions, per scenario
  Retained       \* bound: scenarios an earlier session left approved, that nobody changes now

ReviewState == {"draft", "in_review", "approved", "rejected"}
ReviewAction == {"submit", "approve", "reject", "reopen", "withdraw"}
Version == [content : Contents, basis : Bases, author : {"generator", "user"},
            approved : BOOLEAN]

ASSUME ScenariosAssumption ==
  /\ Generated \in [Bases -> Contents] /\ MaxVersions \in [Scenarios -> Nat]
  /\ "none" \notin Bases /\ IsFiniteSet(Scenarios)
  /\ DOMAIN Retained \subseteq Scenarios
  /\ \A s \in DOMAIN Retained : Retained[s] \in Version /\ Retained[s].approved

VARIABLES
  loaded,      \* the basis in the loaded specification, or "none"
  head,        \* per scenario: currentVersion (0: absent), reviewState, executionStatus
  versions,    \* per scenario: its versions
  reviewed,    \* history: what a reviewer approved: scenario, content, basis
  repointed    \* history: scenarios whose approval an edit carried to another basis

scenarioVars == <<loaded, head, versions, reviewed, repointed>>

Absent == [version |-> 0, review |-> "draft", execution |-> "not_run"]

ScenariosTypeOK ==
  /\ loaded \in Bases \cup {"none"}
  /\ head \in [Scenarios -> [version : Nat, review : ReviewState,
                             execution : {"not_run", "executed", "evaluated"}]]
  /\ versions \in [Scenarios -> Seq(Version)]
  /\ \A s \in Scenarios : Len(versions[s]) = head[s].version
  /\ reviewed \subseteq Scenarios \X Contents \X Bases /\ repointed \subseteq Scenarios

ScenariosInit ==
  /\ loaded = "none"
  /\ head = [s \in Scenarios |->
       IF s \in DOMAIN Retained THEN [version |-> 1, review |-> "approved", execution |-> "not_run"]
       ELSE Absent]
  /\ versions = [s \in Scenarios |-> IF s \in DOMAIN Retained THEN <<Retained[s]>> ELSE <<>>]
  /\ reviewed = { <<s, Retained[s].content, Retained[s].basis>> : s \in DOMAIN Retained }
  /\ repointed = {}

Current(s) == versions[s][head[s].version]
Exists(s) == head[s].version # 0

(* ---------------------------- the life of a version -------------------- *)

\* A new version becomes the current one.
insertVersion(s, v, review, execution) ==
  /\ versions' = [versions EXCEPT ![s] = Append(@, v)]
  /\ head' = [head EXCEPT ![s] = [version |-> @.version + 1, review |-> review,
                                  execution |-> execution]]

\* TRANSITIONS; there is none where the state is not in the domain.
TRANSITIONS ==
  [draft     |-> [submit |-> "in_review", reject |-> "rejected"],
   in_review |-> [approve |-> "approved", reject |-> "rejected", withdraw |-> "draft"],
   approved  |-> [withdraw |-> "in_review", reject |-> "rejected"],
   rejected  |-> [reopen |-> "in_review"]]

\* The flags orphaned, stale and specificationNotLoaded are all off.
BasisCurrent(s) == loaded # "none" /\ Current(s).basis = loaded

\* The guided workflow has another specification, or none.
LoadSpecification(b) ==
  /\ loaded' = b
  /\ UNCHANGED <<head, versions, reviewed, repointed>>

\* One scenario of generateScenarios. A version a person wrote for this operation is kept;
\* anything else that differs is replaced by a version to review.
generateScenario(s) ==
  LET new == [content |-> Generated[loaded], basis |-> loaded, author |-> "generator",
              approved |-> FALSE]
      kept == Current(s).basis = loaded
              /\ (Current(s).content = new.content \/ Current(s).author = "user")
  IN /\ loaded # "none" /\ head[s].version < MaxVersions[s]
     /\ Exists(s) => ~kept
     /\ insertVersion(s, new, IF head[s].review \in {"draft", "rejected"}
                              THEN head[s].review ELSE "in_review", "not_run")
     /\ UNCHANGED <<loaded, reviewed, repointed>>

\* The approval of the current version is recorded, or stamped withdrawn.
setApproval(s, approved) ==
  versions' = [versions EXCEPT ![s][head[s].version].approved = approved]

\* reviewOne, of the current version.
reviewOne(s, action) ==
  /\ Exists(s) /\ action \in DOMAIN TRANSITIONS[head[s].review]
  /\ action \in {"submit", "approve", "reopen"} => BasisCurrent(s)
  /\ head' = [head EXCEPT ![s].review = TRANSITIONS[@][action]]
  /\ IF action \in {"approve", "reject", "withdraw"} THEN setApproval(s, action = "approve")
     ELSE UNCHANGED versions
  /\ reviewed' = reviewed \cup
       (IF action = "approve" THEN {<<s, Current(s).content, Current(s).basis>>} ELSE {})
  /\ UNCHANGED <<loaded, repointed>>

\* Defect: every edit keeps the approval and the review state.
editScenario_CarriesAll(s, content) ==
  LET new == [content |-> content, author |-> "user", approved |-> Current(s).approved,
              basis |-> IF loaded = "none" THEN Current(s).basis ELSE loaded]
  IN /\ Exists(s) /\ head[s].review # "rejected" /\ head[s].version < MaxVersions[s]
     /\ insertVersion(s, new, head[s].review, head[s].execution)
     /\ repointed' = repointed \cup
          (IF new.approved /\ new.basis # Current(s).basis THEN {s} ELSE {})
     /\ UNCHANGED <<loaded, reviewed>>
\* Defect: a material edit keeps the execution status.
editScenario_KeepsExecution(s, content) ==
  LET material == content # Current(s).content
      new == [content |-> content, author |-> "user",
              basis |-> IF loaded = "none" THEN Current(s).basis ELSE loaded,
              approved |-> ~material /\ Current(s).approved]
  IN /\ Exists(s) /\ head[s].review # "rejected" /\ head[s].version < MaxVersions[s]
     /\ material => loaded # "none"
     /\ insertVersion(s, new, IF material /\ head[s].review = "approved"
                              THEN "in_review" ELSE head[s].review, head[s].execution)
     /\ repointed' = repointed \cup
          (IF new.approved /\ new.basis # Current(s).basis THEN {s} ELSE {})
     /\ UNCHANGED <<loaded, reviewed>>
\* An edit of the current version; a material one needs a specification. The new version is
\* stamped with the loaded basis, if any, and keeps a live approval unless the edit is material.
editScenario(s, content) ==
  LET material == content # Current(s).content
      new == [content |-> content, author |-> "user",
              basis |-> IF loaded = "none" THEN Current(s).basis ELSE loaded,
              approved |-> ~material /\ Current(s).approved]
  IN /\ Exists(s) /\ head[s].review # "rejected" /\ head[s].version < MaxVersions[s]
     /\ material => loaded # "none"
     /\ insertVersion(s, new,
                      IF material /\ head[s].review = "approved" THEN "in_review"
                                                                 ELSE head[s].review,
                      IF material THEN "not_run" ELSE head[s].execution)
     /\ repointed' = repointed \cup
          (IF new.approved /\ new.basis # Current(s).basis THEN {s} ELSE {})
     /\ UNCHANGED <<loaded, reviewed>>

ScenariosNext ==
  \/ \E b \in Bases \cup {"none"} : b # loaded /\ LoadSpecification(b)
  \/ \E s \in Scenarios \ DOMAIN Retained :
       \/ generateScenario(s)
       \/ \E action \in ReviewAction : reviewOne(s, action)
       \/ \E content \in Contents : editScenario(s, content)
=============================================================================
