---------------------------- MODULE MCSecurityRuns ----------------------------
(* Two contents for the model checker: a read, and a create that may leave a     *)
(* resource behind. A scenario that nobody changes was approved in an earlier    *)
(* session.                                                                      *)
EXTENDS SecurityRuns

MCGenerated == [b \in Bases |-> "read"]
MCOnce == [c \in Contents |-> 1]
MCReadTwice == [c \in Contents |-> IF c = "read" THEN 2 ELSE 1]
MCMaxVersions == [s \in Scenarios |-> IF s = "edited" THEN 2 ELSE 1]
MCRetained == [s \in Scenarios \ {"edited"} |->
  [content |-> IF s = "post" THEN "create" ELSE "read", basis |-> "b1",
   author |-> "generator", approved |-> TRUE]]
=============================================================================
