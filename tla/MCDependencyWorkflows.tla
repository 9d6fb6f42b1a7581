------------------------- MODULE MCDependencyWorkflows -------------------------
(* Instance of DependencyWorkflows for TLC: five operations and nine pairs that  *)
(* can form a chain, two edges between the same operations, a diamond, two       *)
(* producers of one field, a cycle with relationships into and out of it, and a  *)
(* suggestion that an operation feeds itself.                                    *)
EXTENDS DependencyWorkflows

MCPairs == {"ab", "ab2", "ac", "bb", "bc", "bd", "cb", "cd", "de"}
MCProducer == [p \in MCPairs |-> CASE p \in {"ab", "ab2", "ac"} -> "a"
                                   [] p \in {"bb", "bc", "bd"} -> "b"
                                   [] p \in {"cb", "cd"} -> "c"
                                   [] OTHER -> "d"]
MCConsumer == [p \in MCPairs |-> CASE p \in {"ab", "ab2", "bb", "cb"} -> "b"
                                   [] p \in {"ac", "bc"} -> "c"
                                   [] p \in {"bd", "cd"} -> "d"
                                   [] OTHER -> "e"]

\* Only bd and cd fill the same field; the others have each their own.
MCField == [p \in MCPairs |-> IF p \in {"bd", "cd"} THEN "same" ELSE p]
MCPreference == [p \in MCPairs |->
  CASE p = "ab" -> 1 [] p = "ab2" -> 2 [] p = "ac" -> 3 [] p = "bb" -> 4 [] p = "bc" -> 5
    [] p = "bd" -> 6 [] p = "cb" -> 7 [] p = "cd" -> 8 [] OTHER -> 9]

MCEvidence ==
  { [p \in MCPairs |-> CASE p = "bd" -> bd [] p = "cd" -> cd [] p = "de" -> de
                         [] p \in pairs -> {"name", "resource"} [] OTHER -> {}] :
      pairs \in SUBSET {"ab", "ab2", "ac", "bc"},
      bd \in {{}, {"name", "resource"}, {"name", "resource", "type"}},
      cd \in {{}, {"name", "type", "format"}, {"name", "resource", "type", "format"}},
      de \in {{"name", "tag"}, {"name", "resource"}} }
MCHints == { [p \in MCPairs |-> IF p \in pairs THEN "reused" ELSE "none"] :
               pairs \in {{}, {"cb"}, {"cb", "de"}} }
MCSuggestions == { [p \in MCPairs |-> CASE p = "bb" -> bb [] p = "cd" -> cd [] OTHER -> "none"] :
                     bb \in {"none", "sure"}, cd \in {"none", "unsure", "sure"} }
=============================================================================
