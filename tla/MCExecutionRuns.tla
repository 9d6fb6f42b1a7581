--------------------------- MODULE MCExecutionRuns ---------------------------
(* Instances of ExecutionRuns for TLC: the constants' values. *)
EXTENDS ExecutionRuns

\* Three steps of a workflow, each needing the one before it, and a token request, which is not part
\* of it.
MCCollection ==
  [item \in Items |->
     CASE item = "create" -> [flow |-> 1, position |-> 1, needs |-> {}, synthesized |-> FALSE]
       [] item = "read"   -> [flow |-> 1, position |-> 2, needs |-> {"create"}, synthesized |-> FALSE]
       [] item = "remove" -> [flow |-> 1, position |-> 3, needs |-> {"read"}, synthesized |-> FALSE]
       [] OTHER           -> [flow |-> 0, position |-> 0, needs |-> {}, synthesized |-> TRUE]]

\* A client may ask for an order of its own, and for part of the collection.
MCOrders == IF "read" \in Items THEN {<<"read", "create">>} ELSE {}
=============================================================================
